---- MODULE Spec2Model ----
(***************************************************************************)
(* Model of gatb-core's k-mer models (gatb/kmer/impl/Model.hpp):           *)
(* ModelDirect, ModelCanonical, ModelMinimizer, the neighbor enumeration   *)
(* of ModelAbstract and the SuperKmer codec.                               *)
(*                                                                         *)
(* A k-mer word (Kmer<span>::Type) is a natural number wherever the code   *)
(* keeps it below 4^K (K < span, so no 64-bit wrap can happen); the        *)
(* SuperKmer payload word, whose top bits are used, is modelled at its     *)
(* full width as a sequence of base-4 digits, most significant first.      *)
(***************************************************************************)
EXTENDS Integers, Sequences, FiniteSets, TLC

VARIABLES
    modelImpl,      \* which model class runs: ModelDirect, ModelCanonical, ModelMinimizer
    modelType,      \* ModelMinimizer's template argument ModelType (base model)
    kmerSize,       \* ModelAbstract::_kmerSize
    kmerMask,       \* ModelAbstract::_kmerMask
    revcompTable,   \* ModelAbstract::_revcompTable
    miniSize,       \* _miniModel.getKmerSize()
    nbMinimizers,   \* ModelMinimizer::_nbMinimizers
    mmerMask,       \* ModelMinimizer::_mask
    mmer_lut,       \* ModelMinimizer::_mmer_lut
    data,           \* the tools::misc::Data argument: encoding, buffer, size
    pc,             \* position of the running operation
    idx,            \* iterate: loop index into the buffer
    idxComputed,    \* iterate: index of the last notified kmer
    indexBadChar,   \* iterate: countdown of the last invalid character
    result,         \* iterate: the kmer instance that is updated in place
    emitted,        \* the callback invocations so far, in order
    returned,       \* return value of the operation once it has returned
    source,         \* neighbors: the source kmer value
    nmask,          \* neighbors: the 8 bit selection mask
    kmers,          \* SuperKmer: the vector of kmers the encoder reads
    range,          \* SuperKmer::range of the encoder
    bag,            \* SuperKmer: the words inserted into the Bag, in order
    loadKmers,      \* SuperKmer: the vector of kmers the decoder writes
    seed,           \* codeSeed / codeSeedRight: the kmer the caller holds
    nucls,          \* codeSeedRight: the nucl arguments passed so far
    ctorArgs,       \* the arguments given to the constructor of the model
    error,          \* the exception a constructor has thrown, "none" if none
    parked,         \* the locals of the thread that is not running
    tid             \* the thread that is running

vars == << modelImpl, modelType, kmerSize, kmerMask, revcompTable, miniSize,
           nbMinimizers, mmerMask, mmer_lut, data, pc, idx, idxComputed,
           indexBadChar, result, emitted, returned, source, nmask, kmers,
           range, bag, loadKmers, seed, nucls, ctorArgs,
           error, parked, tid >>

modelVars == << modelImpl, modelType, kmerSize, kmerMask, revcompTable,
                miniSize, nbMinimizers, mmerMask, mmer_lut >>
iterVars  == << data, idx, idxComputed, indexBadChar, result >>
nbrVars   == << source, nmask >>
skVars    == << kmers, range, bag, loadKmers >>
csVars    == << seed, nucls >>
ctorVars  == << ctorArgs, error >>
thVars    == << parked, tid >>

(***************************************************************************)
(* Bounds of the model.                                                    *)
(***************************************************************************)
\* longest buffer of the direct and canonical iterations
MaxLen == 5
\* largest kmer size of the direct and canonical iterations
MaxK == 4
\* longest buffer of the minimizer iterations
MaxMinLen == 6
\* largest kmer size of the minimizer runs
MaxMinK == 4
\* largest kmer size of the neighbor enumerations
MaxNbrK == 3
\* longest run of kmers given to the SuperKmer encoder
MaxRun == 31
\* the template argument span of Kmer<span> the constructors are checked with
span == 8
\* longest buffer and largest kmer size of the first of two threads
MaxThreadLen == 3
MaxThreadK == 2
\* longest buffer and largest kmer size of the single-shot codings
\* longest mmer given to is_allowed on its own
MaxAllowedLen == 5
\* longest sequence and largest kmer size of the slides that are compared
\* with a recomputation
MaxSlideLen == 5
MaxSlideK == 4
\* longest of the short sequences whose runs are encoded and decoded
MaxCodecLen == 5
\* largest kmer size of the runs that are encoded and decoded
MaxCodecK == 3
MaxSeedLen == 4
MaxSeedK == 3

(***************************************************************************)
(* Arithmetic helpers.                                                     *)
(***************************************************************************)
RECURSIVE Pow4(_)
Pow4(n) == IF n = 0 THEN 1 ELSE 4 * Pow4(n - 1)

RECURSIVE Pow2(_)
Pow2(n) == IF n = 0 THEN 1 ELSE 2 * Pow2(n - 1)

Min(a, b) == IF b < a THEN b ELSE a

Max0(a) == IF a < 0 THEN 0 ELSE a

Seqs(S, n) == UNION { [1..k -> S] : k \in 0..n }

\* the element of a set of one element
Only(S) == CHOOSE x \in S : TRUE

\* bit i of a non negative integer
Bit(x, i) == (x \div Pow2(i)) % 2

\* base-4 digit i (0 = least significant) of a non negative integer
Digit(x, i) == (x \div Pow4(i)) % 4

(***************************************************************************)
(* Global tables and LargeInt functions the header only declares.          *)
(***************************************************************************)
\* comp_NT[n]: complement of a nucleotide, A<->T and C<->G
comp_NT(n) == CASE n = 0 -> 2 [] n = 1 -> 3 [] n = 2 -> 0 [] n = 3 -> 1

\* revcomp (kmer, sizeKmer): the sizeKmer digits reversed, each complemented
RECURSIVE revcomp(_, _)
revcomp(x, k) ==
    IF k = 0 THEN 0
    ELSE comp_NT(x % 4) * Pow4(k - 1) + revcomp(x \div 4, k - 1)

(***************************************************************************)
(* ModelAbstract constructor: _kmerMask and _revcompTable.                 *)
(***************************************************************************)
KmerMaskOf(sizeKmer) == Pow4(sizeKmer) - 1

RevcompTableOf(sizeKmer) ==
    [i \in 0..3 |-> comp_NT(i) * Pow4(sizeKmer - 1)]

(***************************************************************************)
(* Nucleotide decoders: ConvertChar = <<nucleotide, invalid>>.             *)
(* buf is the buffer as a sequence of bytes, i a 0-based index.            *)
(***************************************************************************)
ConvertASCII(buf, i)   == << (buf[i + 1] \div 2) % 4, (buf[i + 1] \div 8) % 2 >>
ConvertInteger(buf, i) == << buf[i + 1], 0 >>
ConvertBinary(buf, i)  ==
    << (buf[(i \div 4) + 1] \div Pow4(3 - (i % 4))) % 4, 0 >>

\* ModelAbstract::execute: dispatch on the encoding
Convert(encoding, buf, i) ==
    CASE encoding = "ASCII"   -> ConvertASCII(buf, i)
      [] encoding = "INTEGER" -> ConvertInteger(buf, i)
      [] encoding = "BINARY"  -> ConvertBinary(buf, i)

(***************************************************************************)
(* ModelAbstract::polynom: Horner evaluation of the first sizeKmer         *)
(* nucleotides; returns <<kmer, badIndex>>.                                *)
(***************************************************************************)
RECURSIVE polynomLoop(_, _, _, _, _, _)
polynomLoop(encoding, buf, sizeKmer, i, kmer, badIndex) ==
    IF i >= sizeKmer THEN << kmer, badIndex >>
    ELSE LET c == Convert(encoding, buf, i)
         IN  polynomLoop(encoding, buf, sizeKmer, i + 1,
                         kmer * 4 + c[1],
                         IF c[2] # 0 THEN i ELSE badIndex)

polynom(encoding, buf, sizeKmer) ==
    polynomLoop(encoding, buf, sizeKmer, 0, 0, -1)

(***************************************************************************)
(* x & mask for a mask of the form 2^n - 1 (every mask of the models).     *)
(***************************************************************************)
AndMask(x, mask) == x % (mask + 1)

(***************************************************************************)
(* KmerDirect: [value, isValid].                                           *)
(* KmerCanonical: [table, choice, isValid], table = <<forward, revcomp>>.  *)
(* KmerMinimizer<Model>: the Model::Kmer fields and minimizer, position,   *)
(* changed.                                                                *)
(***************************************************************************)
KmerDirect_value(k) == k.value

KmerCanonical_forward(k) == k.table[1]
KmerCanonical_revcomp(k) == k.table[2]

\* variant: value() always returns the forward word
KmerCanonical_value_Forward(k) == k.table[1]

\* KmerCanonical::value: table[choice]
KmerCanonical_value(k) == k.table[k.choice + 1]

\* KmerCanonical::which
KmerCanonical_which(k) == k.choice = 0

\* variant: the forward strand is chosen on a tie
updateChoice_Le(k) ==
    [k EXCEPT !.choice = IF k.table[1] <= k.table[2] THEN 0 ELSE 1]

\* KmerCanonical::updateChoice
updateChoice(k) ==
    [k EXCEPT !.choice = IF k.table[1] < k.table[2] THEN 0 ELSE 1]

\* KmerCanonical::set (forward, revcomp)
KmerCanonical_set(k, fwd, rev) ==
    updateChoice([k EXCEPT !.table = << fwd, rev >>])

\* value() of a kmer of the base model type
KmerValue(type, k) ==
    IF type = "ModelDirect" THEN KmerDirect_value(k) ELSE KmerCanonical_value(k)

\* forward word of a kmer of the base model type
KmerForward(type, k) ==
    IF type = "ModelDirect" THEN k.value ELSE k.table[1]

\* a default constructed kmer: its fields are written by first() before
\* anything reads them
NewKmer(impl, type) ==
    LET base == IF impl = "ModelDirect" \/ (impl = "ModelMinimizer" /\ type = "ModelDirect")
                THEN [value |-> 0, isValid |-> FALSE]
                ELSE [table |-> << 0, 0 >>, choice |-> 0, isValid |-> FALSE]
        mini == IF type = "ModelDirect"
                THEN [value |-> 0]
                ELSE [table |-> << 0, 0 >>, choice |-> 0]
    IN  IF impl = "ModelMinimizer"
        THEN IF type = "ModelDirect"
             THEN [value |-> 0, isValid |-> FALSE,
                   minimizer |-> mini, position |-> 0, changed |-> FALSE]
             ELSE [table |-> << 0, 0 >>, choice |-> 0, isValid |-> FALSE,
                   minimizer |-> mini, position |-> 0, changed |-> FALSE]
        ELSE base

(***************************************************************************)
(* ModelDirect::first and ModelDirect::next.                               *)
(* first returns <<kmer, badIndex>>.                                       *)
(***************************************************************************)
ModelDirect_first(value) ==
    LET p == polynom(data.encoding, data.buffer, kmerSize)
    IN  << [value EXCEPT !.value = p[1], !.isValid = p[2] < 0], p[2] >>

\* variant: the mask is not applied
ModelDirect_next_NoMask(c, value, isValid) ==
    [value EXCEPT !.value = value.value * 4 + c, !.isValid = isValid]

ModelDirect_next(c, value, isValid) ==
    [value EXCEPT !.value   = AndMask(value.value * 4 + c, kmerMask),
                  !.isValid = isValid]

(***************************************************************************)
(* ModelCanonical::first and ModelCanonical::next.                         *)
(***************************************************************************)
ModelCanonical_first(value) ==
    LET p == polynom(data.encoding, data.buffer, kmerSize)
    IN  << updateChoice([value EXCEPT !.table   = << p[1], revcomp(p[1], kmerSize) >>,
                                      !.isValid = p[2] < 0]),
           p[2] >>

\* variant: the revcomp word is shifted the same way as the forward word
ModelCanonical_next_ShiftLeft(c, value, isValid) ==
    updateChoice(
        [value EXCEPT
            !.table   = << AndMask(value.table[1] * 4 + c, kmerMask),
                           AndMask((value.table[2] * 4) + revcompTable[c], kmerMask) >>,
            !.isValid = isValid])

ModelCanonical_next(c, value, isValid) ==
    updateChoice(
        [value EXCEPT
            !.table   = << AndMask(value.table[1] * 4 + c, kmerMask),
                           AndMask((value.table[2] \div 4) + revcompTable[c], kmerMask) >>,
            !.isValid = isValid])

(***************************************************************************)
(* ModelMinimizer constructor: is_allowed and the lookup table _mmer_lut.  *)
(***************************************************************************)
\* bit j of ~(a1 | (a1 >> 2))
NotOrShift(mmer, j) == 1 - (IF Bit(mmer, j) = 1 \/ Bit(mmer, j + 2) = 1 THEN 1 ELSE 0)

\* bit j of ((a1 >> 1) & a1) after a1 = ~(a1 | (a1 >> 2))
PairBit(mmer, j) == NotOrShift(mmer, j + 1) * NotOrShift(mmer, j)

\* variant: a pair of A's in the top two positions bans the mmer too
is_allowed_TopPair(mmer, len) ==
    \A j \in 0..(2 * (len - 1) - 1) : (j % 2 = 0) => PairBit(mmer, j) = 0

\* is_allowed: _mask_ma1 keeps the even bits below 2*(len-2)
is_allowed(mmer, len) ==
    \A j \in 0..(2 * (len - 2) - 1) : (j % 2 = 0) => PairBit(mmer, j) = 0

\* variant: a banned mmer keeps its canonical value
MmerLutOf_BannedKept(minimizerSize) ==
    LET mask == Pow4(minimizerSize) - 1
    IN  [ii \in 0..mask |->
            LET rev_mmer == revcomp(ii, minimizerSize)
            IN  IF rev_mmer < ii THEN rev_mmer ELSE ii]

\* variant: is_allowed is applied to the mmer before it is folded
MmerLutOf_AllowedFirst(minimizerSize) ==
    LET mask == Pow4(minimizerSize) - 1
    IN  [ii \in 0..mask |->
            LET rev_mmer == revcomp(ii, minimizerSize)
                mmer     == IF rev_mmer < ii THEN rev_mmer ELSE ii
            IN  IF ~is_allowed(ii, minimizerSize) THEN mask ELSE mmer]

MmerLutOf(minimizerSize) ==
    LET mask == Pow4(minimizerSize) - 1
    IN  [ii \in 0..mask |->
            LET rev_mmer == revcomp(ii, minimizerSize)
                mmer     == IF rev_mmer < ii THEN rev_mmer ELSE ii
            IN  IF ~is_allowed(mmer, minimizerSize) THEN mask ELSE mmer]

\* variant: a tie counts as better
ComparatorMinimizer_Le(current, best) == current <= best

\* ComparatorMinimizer::operator()
ComparatorMinimizer(current, best) == current < best

\* _minimizerDefault: a Model::Kmer set to the value ComparatorMinimizer::init
\* gives, the largest mmer
MinimizerDefault(type) ==
    LET tmp == KmerMaskOf(miniSize)
    IN  IF type = "ModelDirect"
        THEN [value |-> tmp]
        ELSE updateChoice([table |-> << tmp, tmp >>, choice |-> 0])

(***************************************************************************)
(* The constructors. ModelDirect (K) and ModelCanonical (K) run the        *)
(* ModelAbstract constructor. ModelMinimizer (K, m) runs it for itself,    *)
(* then constructs _kmerModel (K) and _miniModel (m), each a ModelType     *)
(* with its own ModelAbstract constructor, then tests K <= m, then sets    *)
(* its members and fills the lookup table. An exception leaves no object.  *)
(***************************************************************************)
\* variant: a kmer size equal to the span is accepted
PrecisionCheck_Gt(sizeKmer) == sizeKmer > span

\* ModelAbstract: if (sizeKmer >= span) throw
PrecisionCheck(sizeKmer) == sizeKmer >= span

\* variant: a minimizer as long as the kmer is accepted
BadMinimizerCheck_Lt(sizeKmer, minimizerSize) == sizeKmer < minimizerSize

\* ModelMinimizer: if (kmerSize <= minimizerSize) throw
BadMinimizerCheck(sizeKmer, minimizerSize) == sizeKmer <= minimizerSize

\* _shift = 2*(_nbMinimizers-1)
ModelMinimizer_shift == 2 * (nbMinimizers - 1)

\* one of the ModelAbstract constructors throws
ConstructPrecisionTooLow ==
    /\ pc = "new"
    /\ \/ PrecisionCheck(ctorArgs.kmerSize)
       \/ modelImpl = "ModelMinimizer" /\ PrecisionCheck(ctorArgs.minimizerSize)
    /\ error' = "PrecisionTooLow"
    /\ pc' = "failed"
    /\ UNCHANGED << modelVars, iterVars, emitted, returned, nbrVars, skVars, csVars,
                   ctorArgs, thVars >>

\* the ModelMinimizer constructor throws
ConstructBadMinimizerSize ==
    /\ pc = "new"
    /\ modelImpl = "ModelMinimizer"
    /\ ~PrecisionCheck(ctorArgs.kmerSize)
    /\ ~PrecisionCheck(ctorArgs.minimizerSize)
    /\ BadMinimizerCheck(ctorArgs.kmerSize, ctorArgs.minimizerSize)
    /\ error' = "BadMinimizerSize"
    /\ pc' = "failed"
    /\ UNCHANGED << modelVars, iterVars, emitted, returned, nbrVars, skVars, csVars,
                   ctorArgs, thVars >>

\* ModelDirect (K), ModelCanonical (K) return
ConstructModel ==
    /\ pc = "new"
    /\ modelImpl # "ModelMinimizer"
    /\ ~PrecisionCheck(ctorArgs.kmerSize)
    /\ kmerSize' = ctorArgs.kmerSize
    /\ kmerMask' = KmerMaskOf(ctorArgs.kmerSize)
    /\ revcompTable' = RevcompTableOf(ctorArgs.kmerSize)
    /\ pc' = "start"
    /\ UNCHANGED << modelImpl, modelType, miniSize, nbMinimizers, mmerMask, mmer_lut,
                   iterVars, emitted, returned, nbrVars, skVars, csVars, ctorVars, thVars >>

\* ModelMinimizer<ModelType> (K, m) returns
ConstructMinimizer ==
    /\ pc = "new"
    /\ modelImpl = "ModelMinimizer"
    /\ ~PrecisionCheck(ctorArgs.kmerSize)
    /\ ~PrecisionCheck(ctorArgs.minimizerSize)
    /\ ~BadMinimizerCheck(ctorArgs.kmerSize, ctorArgs.minimizerSize)
    /\ kmerSize' = ctorArgs.kmerSize
    /\ kmerMask' = KmerMaskOf(ctorArgs.kmerSize)
    /\ revcompTable' = RevcompTableOf(ctorArgs.kmerSize)
    /\ miniSize' = ctorArgs.minimizerSize
    /\ nbMinimizers' = ctorArgs.kmerSize - ctorArgs.minimizerSize + 1
    /\ mmerMask' = Pow4(ctorArgs.minimizerSize) - 1
    /\ mmer_lut' = MmerLutOf(ctorArgs.minimizerSize)
    /\ pc' = "start"
    /\ UNCHANGED << modelImpl, modelType, iterVars, emitted, returned, nbrVars, skVars,
                   csVars, ctorVars, thVars >>

NextConstruct == ConstructPrecisionTooLow \/ ConstructBadMinimizerSize
                    \/ ConstructModel \/ ConstructMinimizer

\* one call is_allowed (mmer, len); the mmer is a uint32_t, which holds the
\* mmers of up to 16 nucleotides, and 1 << ((len-2)*2) is an int shift,
\* defined up to len = 17: the lengths called here are below both limits
IsAllowedCall ==
    /\ pc = "call"
    /\ returned' = is_allowed(source, ctorArgs.minimizerSize)
    /\ pc' = "returned"
    /\ UNCHANGED << modelVars, iterVars, emitted, nbrVars, skVars, csVars, ctorVars,
                   thVars >>

NextAllowed == IsAllowedCall

(***************************************************************************)
(* extract and extractShift of KmerDirect and KmerCanonical.               *)
(* extractShift returns <<the mmer, the shifted kmer>>.                    *)
(***************************************************************************)
KmerDirect_extract(k) == [value |-> AndMask(k.value, mmerMask)]

\* variant: the mmer is the masked forward word, not its table entry
KmerCanonical_extract_NoLut(k) ==
    LET v == AndMask(k.table[1], mmerMask)
    IN  updateChoice([table |-> << v, v >>, choice |-> 0])

KmerCanonical_extract(k) ==
    LET v == mmer_lut[AndMask(k.table[1], mmerMask)]
    IN  updateChoice([table |-> << v, v >>, choice |-> 0])

extract(type, k) ==
    IF type = "ModelDirect" THEN KmerDirect_extract(k) ELSE KmerCanonical_extract(k)

\* the words of the local copy 'loop' only feed the next extract, which reads
\* the forward word alone
extractShift(type, k) ==
    IF type = "ModelDirect"
    THEN << KmerDirect_extract(k), [k EXCEPT !.value = k.value \div 4] >>
    ELSE << KmerCanonical_extract(k),
            updateChoice([k EXCEPT !.table = << k.table[1] \div 4, k.table[2] * 4 >>]) >>

(***************************************************************************)
(* ModelMinimizer::computeNewMinimizer, first and next.                    *)
(***************************************************************************)
\* variant: the position is counted from the right end of the kmer
RECURSIVE computeLoop_FromRight(_, _, _, _)
computeLoop_FromRight(type, kmer, loop, i) ==
    IF i < 0 THEN kmer
    ELSE LET e    == extractShift(type, loop)
             mmer == e[1]
         IN  IF ComparatorMinimizer(KmerValue(type, mmer), KmerValue(type, kmer.minimizer))
             THEN computeLoop_FromRight(type,
                      [kmer EXCEPT !.minimizer = mmer,
                                   !.position = nbMinimizers - 1 - i],
                      e[2], i - 1)
             ELSE computeLoop_FromRight(type, kmer, e[2], i - 1)

RECURSIVE computeLoop(_, _, _, _)
computeLoop(type, kmer, loop, i) ==
    IF i < 0 THEN kmer
    ELSE LET e    == extractShift(type, loop)
             mmer == e[1]
         IN  IF ComparatorMinimizer(KmerValue(type, mmer), KmerValue(type, kmer.minimizer))
             THEN computeLoop(type, [kmer EXCEPT !.minimizer = mmer, !.position = i],
                              e[2], i - 1)
             ELSE computeLoop(type, kmer, e[2], i - 1)

\* variant: the position is not reset before the loop
computeNewMinimizer_NoReset(type, kmer) ==
    LET k0 == [kmer EXCEPT !.minimizer = MinimizerDefault(type),
                           !.changed   = TRUE]
    IN  computeLoop(type, k0, k0, nbMinimizers - 1)

computeNewMinimizer(type, kmer) ==
    LET k0 == [kmer EXCEPT !.minimizer = MinimizerDefault(type),
                           !.position  = -1,
                           !.changed   = TRUE]
    IN  computeLoop(type, k0, k0, nbMinimizers - 1)

\* _kmerModel.first and _kmerModel.next on the Model::Kmer part of the kmer
BaseFirst(type, value) ==
    IF type = "ModelDirect" THEN ModelDirect_first(value) ELSE ModelCanonical_first(value)

BaseNext(type, c, value, isValid) ==
    IF type = "ModelDirect" THEN ModelDirect_next(c, value, isValid)
    ELSE ModelCanonical_next(c, value, isValid)

ModelMinimizer_first(type, kmer) ==
    LET r == BaseFirst(type, kmer)
    IN  << computeNewMinimizer(type, r[1]), r[2] >>

\* variant: the position of the incumbent is not decremented
ModelMinimizer_next_NoAging(type, c, kmer, isValid) ==
    LET k1   == [BaseNext(type, c, kmer, isValid) EXCEPT !.isValid = isValid]
        mmer == extract(type, k1)
        k2   == [k1 EXCEPT !.changed = FALSE]
    IN  IF ComparatorMinimizer(KmerValue(type, mmer), KmerValue(type, k2.minimizer))
        THEN [k2 EXCEPT !.minimizer = mmer,
                        !.position  = nbMinimizers - 1,
                        !.changed   = TRUE]
        ELSE IF k2.position < 0
             THEN computeNewMinimizer(type, k2)
             ELSE k2

\* variant: an incumbent that left the window is kept
ModelMinimizer_next_NoRecompute(type, c, kmer, isValid) ==
    LET k1   == [BaseNext(type, c, kmer, isValid) EXCEPT !.isValid = isValid]
        mmer == extract(type, k1)
        k2   == [k1 EXCEPT !.position = k1.position - 1, !.changed = FALSE]
    IN  IF ComparatorMinimizer(KmerValue(type, mmer), KmerValue(type, k2.minimizer))
        THEN [k2 EXCEPT !.minimizer = mmer,
                        !.position  = nbMinimizers - 1,
                        !.changed   = TRUE]
        ELSE k2

\* variant: the changed flag is not reset at the start of the step
ModelMinimizer_next_KeepChanged(type, c, kmer, isValid) ==
    LET k1   == [BaseNext(type, c, kmer, isValid) EXCEPT !.isValid = isValid]
        mmer == extract(type, k1)
        k2   == [k1 EXCEPT !.position = k1.position - 1]
    IN  IF ComparatorMinimizer(KmerValue(type, mmer), KmerValue(type, k2.minimizer))
        THEN [k2 EXCEPT !.minimizer = mmer,
                        !.position  = nbMinimizers - 1,
                        !.changed   = TRUE]
        ELSE IF k2.position < 0
             THEN computeNewMinimizer(type, k2)
             ELSE k2

ModelMinimizer_next(type, c, kmer, isValid) ==
    LET k1   == [BaseNext(type, c, kmer, isValid) EXCEPT !.isValid = isValid]
        mmer == extract(type, k1)
        k2   == [k1 EXCEPT !.position = k1.position - 1, !.changed = FALSE]
    IN  IF ComparatorMinimizer(KmerValue(type, mmer), KmerValue(type, k2.minimizer))
        THEN [k2 EXCEPT !.minimizer = mmer,
                        !.position  = nbMinimizers - 1,
                        !.changed   = TRUE]
        ELSE IF k2.position < 0
             THEN computeNewMinimizer(type, k2)
             ELSE k2

\* getMinimizerValue (k): km.set (k) gives both words the value k
getMinimizerValue(k) ==
    LET km == IF modelType = "ModelDirect"
              THEN [NewKmer("ModelMinimizer", modelType) EXCEPT !.value = k]
              ELSE KmerCanonical_set(NewKmer("ModelMinimizer", modelType), k, k)
    IN  KmerValue(modelType, computeNewMinimizer(modelType, km).minimizer)

\* one call of getMinimizerValue, on the word k; at most two calls are made
GetMinimizerValue(k) ==
    /\ pc = "start"
    /\ Len(emitted) < 2
    /\ emitted' = Append(emitted, [k |-> k, value |-> getMinimizerValue(k)])
    /\ UNCHANGED << modelVars, iterVars, pc, returned, nbrVars, skVars, csVars, ctorVars,
                   thVars >>

\* the calls are made on the source word and on the word read from the
\* other strand
NextMinimizerValue ==
    \E k \in {source, revcomp(source, kmerSize)} : GetMinimizerValue(k)

(***************************************************************************)
(* Static polymorphism: the first and next of the running ModelImpl.       *)
(***************************************************************************)
first(value) ==
    CASE modelImpl = "ModelDirect"    -> ModelDirect_first(value)
      [] modelImpl = "ModelCanonical" -> ModelCanonical_first(value)
      [] modelImpl = "ModelMinimizer" -> ModelMinimizer_first(modelType, value)

next(c, value, isValid) ==
    CASE modelImpl = "ModelDirect"    -> ModelDirect_next(c, value, isValid)
      [] modelImpl = "ModelCanonical" -> ModelCanonical_next(c, value, isValid)
      [] modelImpl = "ModelMinimizer" -> ModelMinimizer_next(modelType, c, value, isValid)

(***************************************************************************)
(* ModelAbstract::iterate (seq, length, callback).                         *)
(***************************************************************************)
\* nbKmers <= 0: return false, no callback
IterateTooShort ==
    /\ pc = "start"
    /\ data.size - kmerSize + 1 <= 0
    /\ returned' = FALSE
    /\ pc' = "done"
    /\ UNCHANGED << modelVars, iterVars, emitted, nbrVars, skVars, csVars, ctorVars, thVars >>

\* first kmer, notified with index 0
IterateFirst ==
    /\ pc = "start"
    /\ data.size - kmerSize + 1 > 0
    /\ LET r == first(result)
       IN  /\ result' = r[1]
           /\ indexBadChar' = r[2]
           /\ emitted' = Append(emitted, [kmer |-> r[1], idx |-> 0])
    /\ idxComputed' = 0
    /\ idx' = kmerSize
    /\ pc' = "loop"
    /\ UNCHANGED << modelVars, data, returned, nbrVars, skVars, csVars, ctorVars, thVars >>

\* variant: the countdown restarts one too high
NextBadChar_RestartAtK(c, badChar) == IF c[2] # 0 THEN kmerSize ELSE badChar - 1

\* the countdown of the loop: an invalid character restarts it at kmerSize-1
NextBadChar(c, badChar) == IF c[2] # 0 THEN kmerSize - 1 ELSE badChar - 1

\* variant: the loop keeps a shrinking copy of the mask in the model
IterateNext_WritesModel ==
    /\ pc = "loop"
    /\ idx < data.size
    /\ LET c   == Convert(data.encoding, data.buffer, idx)
           ibc == NextBadChar(c, indexBadChar)
           r   == next(c[1], result, ibc < 0)
       IN  /\ indexBadChar' = ibc
           /\ result' = r
           /\ emitted' = Append(emitted, [kmer |-> r, idx |-> idxComputed + 1])
    /\ idxComputed' = idxComputed + 1
    /\ idx' = idx + 1
    /\ kmerMask' = kmerMask \div 4
    /\ UNCHANGED << modelImpl, modelType, kmerSize, revcompTable, miniSize, nbMinimizers,
                   mmerMask, mmer_lut, data, pc, returned, nbrVars, skVars, csVars,
                   ctorVars, thVars >>

\* variant: the kmer is notified with idxComputed++
IterateNext_PostIncrement ==
    /\ pc = "loop"
    /\ idx < data.size
    /\ LET c   == Convert(data.encoding, data.buffer, idx)
           ibc == NextBadChar(c, indexBadChar)
           r   == next(c[1], result, ibc < 0)
       IN  /\ indexBadChar' = ibc
           /\ result' = r
           /\ emitted' = Append(emitted, [kmer |-> r, idx |-> idxComputed])
    /\ idxComputed' = idxComputed + 1
    /\ idx' = idx + 1
    /\ UNCHANGED << modelVars, data, pc, returned, nbrVars, skVars, csVars, ctorVars, thVars >>

\* one turn of the loop: next kmer, notified with ++idxComputed
IterateNext ==
    /\ pc = "loop"
    /\ idx < data.size
    /\ LET c   == Convert(data.encoding, data.buffer, idx)
           ibc == NextBadChar(c, indexBadChar)
           r   == next(c[1], result, ibc < 0)
       IN  /\ indexBadChar' = ibc
           /\ result' = r
           /\ emitted' = Append(emitted, [kmer |-> r, idx |-> idxComputed + 1])
    /\ idxComputed' = idxComputed + 1
    /\ idx' = idx + 1
    /\ UNCHANGED << modelVars, data, pc, returned, nbrVars, skVars, csVars, ctorVars, thVars >>

\* end of the loop: return true
IterateReturn ==
    /\ pc = "loop"
    /\ idx >= data.size
    /\ returned' = TRUE
    /\ pc' = "done"
    /\ UNCHANGED << modelVars, iterVars, emitted, nbrVars, skVars, csVars, ctorVars, thVars >>

NextIterate == IterateTooShort \/ IterateFirst \/ IterateNext \/ IterateReturn

(***************************************************************************)
(* ModelAbstract::codeSeed and codeSeedRight, through Functor_codeSeed and *)
(* Functor_codeSeedRight. codeSeed does not check that the buffer holds    *)
(* sizeKmer nucleotides: the caller codes the seed of a buffer that        *)
(* iterate accepted.                                                       *)
(***************************************************************************)
\* Functor_codeSeed: first on a default constructed kmer
Functor_codeSeed == first(NewKmer(modelImpl, modelType))[1]

\* variant: the nucl argument is taken as the nucleotide code, not decoded
Functor_codeSeedRight_NoConvert(kmer, nucl) == next(nucl % 4, kmer, TRUE)

\* variant: a kmer that follows an invalid kmer is invalid
Functor_codeSeedRight_Sticky(kmer, nucl) ==
    LET c == Convert(data.encoding, << nucl >>, 0)
    IN  next(c[1], kmer, c[2] = 0 /\ kmer.isValid)

\* Functor_codeSeedRight: Convert::get (&nucl, 0), then next on a copy
Functor_codeSeedRight(kmer, nucl) ==
    LET c == Convert(data.encoding, << nucl >>, 0)
    IN  next(c[1], kmer, c[2] = 0)

\* the byte a caller holding the buffer passes for nucleotide i: the byte at
\* offset i, or (packed buffers) a byte with that nucleotide in its top pair
NuclArguments(i) ==
    (IF i < Len(data.buffer) THEN { data.buffer[i + 1] } ELSE {})
        \cup (IF data.encoding = "BINARY"
              THEN { Convert(data.encoding, data.buffer, i)[1] * 64 }
              ELSE {})

CodeSeed ==
    /\ pc = "done"
    /\ returned = TRUE
    /\ seed' = Functor_codeSeed
    /\ nucls' = << >>
    /\ pc' = "seeded"
    /\ UNCHANGED << modelVars, iterVars, emitted, returned, nbrVars, skVars, ctorVars, thVars >>

CodeSeedRight ==
    /\ pc = "seeded"
    /\ kmerSize + Len(nucls) < data.size
    /\ \E nucl \in NuclArguments(kmerSize + Len(nucls)) :
          /\ seed' = Functor_codeSeedRight(seed, nucl)
          /\ nucls' = Append(nucls, nucl)
    /\ UNCHANGED << modelVars, iterVars, pc, emitted, returned, nbrVars, skVars, ctorVars,
                   thVars >>

NextCodeSeed == NextIterate \/ CodeSeed \/ CodeSeedRight

(***************************************************************************)
(* ModelAbstract::iterateNeighbors, iterateOutgoingNeighbors and           *)
(* iterateIncomingNeighbors. A callback invocation is recorded with the    *)
(* value passed to the functor, labelled by the nucleotide and direction   *)
(* of the loop turn that made it.                                          *)
(***************************************************************************)
\* nt ^ 2
Xor2(nt) == IF Bit(nt, 1) = 1 THEN nt - 2 ELSE nt + 2

\* the value passed to the functor for nt by iterateOutgoingNeighbors
OutgoingNeighbor(src, nt) ==
    LET next1 == AndMask(src * 4 + nt, kmerMask)
        next2 == revcomp(next1, kmerSize)
    IN  Min(next1, next2)

\* variant: the nucleotide is not complemented
IncomingNeighbor_NoComplement(rev, nt) ==
    LET next1 == AndMask(rev * 4 + nt, kmerMask)
        next2 == revcomp(next1, kmerSize)
    IN  Min(next1, next2)

\* the value passed to the functor for nt by iterateIncomingNeighbors,
\* rev being the reverse complement of the source
IncomingNeighbor(rev, nt) ==
    LET next1 == AndMask(rev * 4 + Xor2(nt), kmerMask)
        next2 == revcomp(next1, kmerSize)
    IN  Min(next1, next2)

\* variant: the loop runs from nt = 3 down to 0
SelectedNt_Descending(mask) == SelectSeq(<< 3, 2, 1, 0 >>, LAMBDA nt : Bit(mask, nt) = 1)

\* the nucleotides nt = 0..3 with mask & (1<<nt), in loop order
SelectedNt(mask) == SelectSeq(<< 0, 1, 2, 3 >>, LAMBDA nt : Bit(mask, nt) = 1)

OutgoingCalls(src, mask) ==
    LET nts == SelectedNt(mask)
    IN  [j \in 1..Len(nts) |->
            [value |-> OutgoingNeighbor(src, nts[j]), nt |-> nts[j], dir |-> "out"]]

\* variant: the source itself is extended, not its reverse complement
IncomingCalls_NoRevcomp(src, mask) ==
    LET nts == SelectedNt(mask)
        rev == src
    IN  [j \in 1..Len(nts) |->
            [value |-> IncomingNeighbor(rev, nts[j]), nt |-> nts[j], dir |-> "in"]]

IncomingCalls(src, mask) ==
    LET nts == SelectedNt(mask)
        rev == revcomp(src, kmerSize)
    IN  [j \in 1..Len(nts) |->
            [value |-> IncomingNeighbor(rev, nts[j]), nt |-> nts[j], dir |-> "in"]]

IterateOutgoingNeighbors ==
    /\ pc = "start"
    /\ emitted' = OutgoingCalls(source, nmask)
    /\ pc' = "done"
    /\ UNCHANGED << modelVars, iterVars, returned, nbrVars, skVars, csVars, ctorVars, thVars >>

IterateIncomingNeighbors ==
    /\ pc = "start"
    /\ emitted' = IncomingCalls(source, nmask)
    /\ pc' = "done"
    /\ UNCHANGED << modelVars, iterVars, returned, nbrVars, skVars, csVars, ctorVars, thVars >>

\* outgoing with the low nibble of the mask, then incoming with the high one
IterateNeighbors ==
    /\ pc = "start"
    /\ emitted' = OutgoingCalls(source, nmask % 16)
                     \o IncomingCalls(source, (nmask \div 16) % 16)
    /\ pc' = "done"
    /\ UNCHANGED << modelVars, iterVars, returned, nbrVars, skVars, csVars, ctorVars, thVars >>

NextNeighbors == IterateOutgoingNeighbors \/ IterateIncomingNeighbors \/ IterateNeighbors

(***************************************************************************)
(* Words of the full width of Kmer<span>::Type, for the SuperKmer payload: *)
(* sequences of TypeDigits base-4 digits, most significant first.          *)
(***************************************************************************)
\* Type::getSize() / 2 for the default span: one 64 bit limb
TypeDigits == 32

\* a word as a sequence value, its digits computed once
Word(f) == SubSeq(f, 1, TypeDigits)

\* the word of a number below 4^15
WordOf(n) ==
    Word([i \in 1..TypeDigits |-> IF TypeDigits - i < 15 THEN Digit(n, TypeDigits - i) ELSE 0])

\* the number held by the low 15 digits of a word
WordVal(w) ==
    LET f[i \in 0..15] == IF i = 0 THEN 0 ELSE f[i - 1] + w[TypeDigits - i + 1] * Pow4(i - 1)
    IN  f[15]

\* w << 2d and w >> 2d
WordShl(w, d) == Word([i \in 1..TypeDigits |-> IF i + d <= TypeDigits THEN w[i + d] ELSE 0])
WordShr(w, d) == Word([i \in 1..TypeDigits |-> IF i - d >= 1 THEN w[i - d] ELSE 0])

\* bitwise or of two digits, of two words
Or2(x, y) == (IF Bit(x, 1) = 1 \/ Bit(y, 1) = 1 THEN 2 ELSE 0)
                + (IF Bit(x, 0) = 1 \/ Bit(y, 0) = 1 THEN 1 ELSE 0)
WordOr(a, b) == Word([i \in 1..TypeDigits |-> Or2(a[i], b[i])])

(***************************************************************************)
(* SuperKmer::size, operator[], save and load.                             *)
(***************************************************************************)
SuperKmer_size == range[2] - range[1] + 1

\* (*this)[i]
SuperKmer_at(i) == kmers[i + range[1] + 1]

\* one turn of the loop of save: the low nucleotide of the kmer ii is pushed
saveTurn(ii, compactedK) ==
    WordOr(WordShl(compactedK, 1), WordOf(KmerCanonical_forward(SuperKmer_at(ii)) % 4))

\* the turns from..to-1 of the loop of save, in their order: those of the
\* first half of the range, then those of the second half
RECURSIVE saveTurns(_, _, _)
saveTurns(from, to, compactedK) ==
    IF from >= to THEN compactedK
    ELSE IF to = from + 1 THEN saveTurn(from, compactedK)
    ELSE Only({ saveTurns((from + to) \div 2, to, x) :
                x \in { saveTurns(from, (from + to) \div 2, compactedK) } })

\* the loop of save: the low nucleotide of the kmers ii..superKmerLen-1
saveLoop(ii, compactedK) == saveTurns(ii, SuperKmer_size, compactedK)

\* variant: the seed word is inserted before the payload word
SavedWords_SeedFirst ==
    LET nbK        == WordOf(SuperKmer_size)
        maxs       == TypeDigits - 4
        compactedK == WordOr(saveLoop(1, WordOf(0)), WordShl(nbK, maxs))
    IN  << WordOf(KmerCanonical_forward(SuperKmer_at(0))), compactedK >>

\* the two words save inserts into the bag
SavedWords ==
    LET nbK        == WordOf(SuperKmer_size)
        maxs       == TypeDigits - 4
        compactedK == WordOr(saveLoop(1, WordOf(0)), WordShl(nbK, maxs))
    IN  << compactedK, WordOf(KmerCanonical_forward(SuperKmer_at(0))) >>

\* kmersBuffer.resize (nbKmers): the slots kept, new ones default constructed
Resized(vec, n) ==
    [j \in 1..n |-> IF j <= Len(vec) THEN vec[j] ELSE NewKmer(modelImpl, modelType)]

\* the vector after the invocations of BuildFunctor, kmersBuffer[idx] = kmer
\* each: a slot holds the kmer of the last invocation made with its index
BuildFunctor(vec, calls) ==
    [j \in 1..Len(vec) |->
        LET hits == { i \in 1..Len(calls) : calls[i].idx = j - 1 }
        IN  IF hits = {} THEN vec[j]
            ELSE calls[CHOOSE i \in hits : \A h \in hits : h <= i].kmer]

\* ModelAbstract::build with nbKmers <= 0: return false, the vector untouched
BuildTooShort ==
    /\ pc = "start"
    /\ data.size - kmerSize + 1 <= 0
    /\ returned' = FALSE
    /\ pc' = "nobuild"
    /\ UNCHANGED << modelVars, iterVars, emitted, nbrVars, skVars, csVars, ctorVars, thVars >>

\* variant: the vector is not resized when it is already large enough
Build_NoResize ==
    /\ pc = "done"
    /\ returned = TRUE
    /\ kmers' = BuildFunctor(IF Len(kmers) >= data.size - kmerSize + 1 THEN kmers
                             ELSE Resized(kmers, data.size - kmerSize + 1), emitted)
    /\ range' = << 0, Len(emitted) - 1 >>
    /\ pc' = "built"
    /\ UNCHANGED << modelVars, iterVars, emitted, returned, nbrVars, bag, loadKmers,
                   csVars, ctorVars, thVars >>

\* ModelAbstract::build with nbKmers > 0, once its call of iterate is over:
\* the vector has been resized and filled by the BuildFunctor, and build
\* returns true; the SuperKmer is given the vector, its range the whole of it
Build ==
    /\ pc = "done"
    /\ returned = TRUE
    /\ kmers' = BuildFunctor(Resized(kmers, data.size - kmerSize + 1), emitted)
    /\ range' = << 0, Len(emitted) - 1 >>
    /\ pc' = "built"
    /\ UNCHANGED << modelVars, iterVars, emitted, returned, nbrVars, bag, loadKmers,
                   csVars, ctorVars, thVars >>

NextBuild == NextIterate \/ BuildTooShort \/ Build

Save ==
    /\ pc = "built"
    /\ bag' = bag \o SavedWords
    /\ pc' = "saved"
    /\ UNCHANGED << modelVars, iterVars, emitted, returned, nbrVars, kmers, range, loadKmers,
                   csVars, ctorVars, thVars >>

\* one turn of the loop of load on its locals st: the next slot is set, then
\* the loop is left (brk) or the next nucleotide is unpacked and rem counted
loadTurn(superk, st) ==
    IF st.brk THEN st
    ELSE LET set == Append(st.slots,
                        KmerCanonical_set(NewKmer(modelImpl, modelType),
                                          st.rev_temp, st.temp))
         IN  IF st.rem < 2 THEN [st EXCEPT !.slots = set, !.brk = TRUE]
             ELSE LET kmerMaskL == Pow4(kmerSize) - 1
                      shift     == kmerSize - 1
                      newnt     == WordShr(superk, st.rem - 2)[TypeDigits]
                  IN  [rem      |-> st.rem - 1,
                       temp     |-> AndMask(st.temp * 4 + newnt, kmerMaskL),
                       rev_temp |-> AndMask((st.rev_temp \div 4)
                                               + comp_NT(newnt) * Pow4(shift),
                                            kmerMaskL),
                       slots    |-> set,
                       brk      |-> FALSE]

\* the turns from..to-1 of the loop of load, in their order: those of the
\* first half of the range, then those of the second half
RECURSIVE loadTurns(_, _, _, _)
loadTurns(superk, from, to, st) ==
    IF from >= to THEN st
    ELSE IF to = from + 1 THEN loadTurn(superk, st)
    ELSE Only({ loadTurns(superk, (from + to) \div 2, to, x) :
                x \in { loadTurns(superk, from, (from + to) \div 2, st) } })

\* the loop of load: the slots written by the turns ii..nbK-1
loadLoop(superk, nbK, ii, rem, temp, rev_temp, slots) ==
    loadTurns(superk, ii, nbK,
              [rem |-> rem, temp |-> temp, rev_temp |-> rev_temp, slots |-> slots,
               brk |-> FALSE]).slots

\* variant: the first reverse complement word is the seed word itself
LoadedSlots_SeedAsRevcomp(superk, seedk) ==
    LET nbK  == WordVal(WordShr(superk, TypeDigits - 4)) % 256
        temp == WordVal(seedk)
    IN  loadLoop(superk, nbK, 0, nbK, temp, temp, << >>)

\* the slots 0..nbK-1 that load writes, from the two words of the iterator
LoadedSlots(superk, seedk) ==
    LET nbK  == WordVal(WordShr(superk, TypeDigits - 4)) % 256
        temp == WordVal(seedk)
    IN  loadLoop(superk, nbK, 0, nbK, temp, revcomp(temp, kmerSize), << >>)

\* load: kmers[ii].set (rev_temp, temp) on the slots 0..nbK-1 of the
\* decoder's vector, which is large enough for them; set writes the two
\* words and the choice of a slot, the other slots are not touched. Slots
\* the vector is not known to hold before the call appear as written.
Load ==
    /\ pc = "saved"
    /\ loadKmers' =
          LET slots == LoadedSlots(bag[1], bag[2])
              n     == IF Len(slots) > Len(loadKmers) THEN Len(slots) ELSE Len(loadKmers)
          IN  [j \in 1..n |->
                  IF j > Len(slots) THEN loadKmers[j]
                  ELSE IF j > Len(loadKmers) THEN slots[j]
                  ELSE KmerCanonical_set(loadKmers[j], slots[j].table[1],
                                         slots[j].table[2])]
    /\ pc' = "loaded"
    /\ UNCHANGED << modelVars, iterVars, emitted, returned, nbrVars, kmers, range, bag,
                   csVars, ctorVars, thVars >>

NextSuperKmer == NextIterate \/ Build \/ Save \/ Load

(***************************************************************************)
(* Two threads that call the const methods of one model. The variables     *)
(* data, pc, idx, idxComputed, indexBadChar, result, emitted and returned  *)
(* are the arguments, locals and callback of the thread that is running;   *)
(* those of the other thread are kept in parked. A context switch may      *)
(* happen between any two steps; the model is the same object for both.    *)
(***************************************************************************)
ThreadLocals(d, p, i, ic, ibc, r, e, ret) ==
    [data |-> d, pc |-> p, idx |-> i, idxComputed |-> ic, indexBadChar |-> ibc,
     result |-> r, emitted |-> e, returned |-> ret]

Switch ==
    /\ pc \in {"start", "loop", "done"}
    /\ parked' = ThreadLocals(data, pc, idx, idxComputed, indexBadChar, result,
                              emitted, returned)
    /\ data' = parked.data
    /\ pc' = parked.pc
    /\ idx' = parked.idx
    /\ idxComputed' = parked.idxComputed
    /\ indexBadChar' = parked.indexBadChar
    /\ result' = parked.result
    /\ emitted' = parked.emitted
    /\ returned' = parked.returned
    /\ tid' = 1 - tid
    /\ UNCHANGED << modelVars, nbrVars, skVars, csVars, ctorVars >>

NextThreads == NextIterate \/ NextNeighbors \/ Switch

(***************************************************************************)
(* Inputs: Data objects (encoding, buffer, number of nucleotides).         *)
(***************************************************************************)
\* the bytes 'A', 'C', 'G', 'T' and 'N'
AsciiNucleotides == {65, 67, 71, 84}
AsciiBytes == AsciiNucleotides \cup {78}

AsciiData(bytes, maxLen) ==
    { [encoding |-> "ASCII", buffer |-> b, size |-> Len(b)] : b \in Seqs(bytes, maxLen) }

IntegerData(maxLen) ==
    { [encoding |-> "INTEGER", buffer |-> b, size |-> Len(b)] : b \in Seqs(0..3, maxLen) }

\* four nucleotides a byte: 27 is ACTG, 141 is TAGC
BinaryData ==
    { [encoding |-> "BINARY", buffer |-> b, size |-> n] :
        b \in Seqs({27, 141}, 2), n \in 0..8 } 

\* the sequences of the unit tests and of the validity scenario:
\* "CATTGATAGTGG" and "ACGNACGT"
TestData ==
    { [encoding |-> "ASCII", size |-> 12,
       buffer |-> << 67, 65, 84, 84, 71, 65, 84, 65, 71, 84, 71, 71 >>],
      [encoding |-> "ASCII", size |-> 8,
       buffer |-> << 65, 67, 71, 78, 65, 67, 71, 84 >>] }

(***************************************************************************)
(* Initial states: a constructed model and the arguments of one call.      *)
(***************************************************************************)
\* ModelDirect (K), ModelCanonical (K)
ModelInit(impl, sizeKmer) ==
    /\ modelImpl = impl
    /\ modelType = impl
    /\ kmerSize = sizeKmer
    /\ kmerMask = KmerMaskOf(sizeKmer)
    /\ revcompTable = RevcompTableOf(sizeKmer)
    /\ miniSize = 0
    /\ nbMinimizers = 0
    /\ mmerMask = 0
    /\ mmer_lut = << >>

\* ModelMinimizer<type> (K, m)
MinimizerInit(type, sizeKmer, minimizerSize) ==
    /\ modelImpl = "ModelMinimizer"
    /\ modelType = type
    /\ kmerSize = sizeKmer
    /\ kmerMask = KmerMaskOf(sizeKmer)
    /\ revcompTable = RevcompTableOf(sizeKmer)
    /\ miniSize = minimizerSize
    /\ nbMinimizers = sizeKmer - minimizerSize + 1
    /\ mmerMask = Pow4(minimizerSize) - 1
    /\ mmer_lut = MmerLutOf(minimizerSize)

IterateInit(d) ==
    /\ data = d
    /\ pc = "start"
    /\ idx = 0
    /\ idxComputed = 0
    /\ indexBadChar = 0
    /\ result = NewKmer(modelImpl, modelType)
    /\ emitted = << >>
    /\ returned = "none"

NoNeighbors == source = 0 /\ nmask = 0

NoSuperKmer == kmers = << >> /\ range = << 0, 0 >> /\ bag = << >> /\ loadKmers = << >>

\* no single-shot coding, a constructor that has returned, one thread
NoCodeSeed == seed = << >> /\ nucls = << >>
Constructed ==
    /\ ctorArgs = [kmerSize |-> kmerSize, minimizerSize |-> miniSize]
    /\ error = "none"
NoThreads == parked = << >> /\ tid = 0

IterateData == AsciiData(AsciiBytes, MaxLen) \cup IntegerData(MaxLen)
                  \cup { d \in BinaryData : d.size <= 4 * Len(d.buffer) } \cup TestData

InitDirect ==
    /\ \E k \in 1..MaxK : ModelInit("ModelDirect", k)
    /\ \E d \in IterateData : IterateInit(d)
    /\ NoNeighbors
    /\ NoSuperKmer
    /\ NoCodeSeed
    /\ Constructed
    /\ NoThreads

InitCanonical ==
    /\ \E k \in 1..MaxK : ModelInit("ModelCanonical", k)
    /\ \E d \in IterateData : IterateInit(d)
    /\ NoNeighbors
    /\ NoSuperKmer
    /\ NoCodeSeed
    /\ Constructed
    /\ NoThreads

MinimizerData == AsciiData(AsciiNucleotides, MaxMinLen) \cup TestData

InitMinimizer ==
    /\ \E type \in {"ModelDirect", "ModelCanonical"} :
       \E k \in 3..MaxMinK :
       \E m \in 2..(k - 1) : MinimizerInit(type, k, m)
    /\ \E d \in MinimizerData : IterateInit(d)
    /\ NoNeighbors
    /\ NoSuperKmer
    /\ NoCodeSeed
    /\ Constructed
    /\ NoThreads

\* minimizer models over both base models, every short sequence of
\* nucleotides and the two test sequences
InitSlide ==
    /\ \E type \in {"ModelDirect", "ModelCanonical"} :
       \E k \in 3..MaxSlideK :
       \E m \in 2..(k - 1) : MinimizerInit(type, k, m)
    /\ \E d \in AsciiData(AsciiNucleotides, MaxSlideLen) \cup TestData : IterateInit(d)
    /\ NoNeighbors
    /\ NoSuperKmer
    /\ NoCodeSeed
    /\ Constructed
    /\ NoThreads

EmptyData == [encoding |-> "ASCII", buffer |-> << >>, size |-> 0]

InitNeighbors ==
    /\ \E k \in 1..MaxNbrK : ModelInit("ModelCanonical", k)
    /\ IterateInit(EmptyData)
    /\ source \in 0..kmerMask
    /\ nmask \in 0..255
    /\ NoSuperKmer
    /\ NoCodeSeed
    /\ Constructed
    /\ NoThreads

\* "CATTGATAGTGG" repeated up to n nucleotides
LongData(n) ==
    LET unit == << 67, 65, 84, 84, 71, 65, 84, 65, 71, 84, 71, 71 >>
    IN  [encoding |-> "ASCII", size |-> n,
         buffer |-> [i \in 1..n |-> unit[((i - 1) % 12) + 1]]]

\* a run of kmers of one sequence: every short sequence, and long ones
InitSuperKmer ==
    /\ \E k \in 3..MaxMinK :
       \E m \in 2..(k - 1) : MinimizerInit("ModelCanonical", k, m)
    /\ \E d \in MinimizerData \cup { LongData(kmerSize + run - 1) : run \in 1..MaxRun } :
          IterateInit(d)
    /\ NoNeighbors
    /\ NoSuperKmer
    /\ NoCodeSeed
    /\ Constructed
    /\ NoThreads

\* the vector of the decoding SuperKmer: more slots than the longest run,
\* each holding a kmer of an earlier use that no decoding can produce
DecoderSlots == MaxRun + 2
DecoderVector ==
    [j \in 1..DecoderSlots |->
        [NewKmer("ModelMinimizer", "ModelCanonical")
            EXCEPT !.table = << kmerMask, kmerMask >>, !.choice = 1, !.isValid = TRUE]]

\* the runs given to the codec: every short sequence, and the long ones
InitCodec ==
    /\ \E k \in 3..MaxCodecK :
       \E m \in 2..(k - 1) : MinimizerInit("ModelCanonical", k, m)
    /\ \E d \in AsciiData(AsciiNucleotides, MaxCodecLen) \cup TestData
                \cup { LongData(kmerSize + run - 1) : run \in 1..MaxRun } :
          IterateInit(d)
    /\ NoNeighbors
    /\ kmers = << >> /\ range = << 0, 0 >> /\ bag = << >>
    /\ loadKmers = DecoderVector
    /\ NoCodeSeed
    /\ Constructed
    /\ NoThreads

\* the vector given to build already holds two kmers of an earlier use
StaleKmers ==
    << [table |-> << 1, 2 >>, choice |-> 0, isValid |-> TRUE],
       [table |-> << 3, 0 >>, choice |-> 1, isValid |-> FALSE] >>

InitBuild ==
    /\ \E k \in 1..MaxK : ModelInit("ModelCanonical", k)
    /\ \E d \in IterateData : IterateInit(d)
    /\ NoNeighbors
    /\ kmers = StaleKmers /\ range = << 0, 0 >> /\ bag = << >> /\ loadKmers = << >>
    /\ NoCodeSeed
    /\ Constructed
    /\ NoThreads

CodeSeedData == AsciiData(AsciiBytes, MaxSeedLen) \cup IntegerData(MaxSeedLen)
                   \cup { d \in BinaryData : d.size <= 4 * Len(d.buffer) } \cup TestData

InitCodeSeed ==
    /\ \E impl \in {"ModelDirect", "ModelCanonical"} :
       \E k \in 1..MaxSeedK : ModelInit(impl, k)
    /\ \E d \in CodeSeedData : IterateInit(d)
    /\ NoNeighbors
    /\ NoSuperKmer
    /\ NoCodeSeed
    /\ Constructed
    /\ NoThreads

\* before the constructor runs: the class and the arguments are chosen, no
\* member is set. The kmer size is at least 1, and a minimizer at least 2
\* long (is_allowed shifts by 2*(len-2)).
InitConstruct ==
    /\ \E impl \in {"ModelDirect", "ModelCanonical", "ModelMinimizer"} :
       \E type \in {"ModelDirect", "ModelCanonical"} :
       \E k \in 1..(span + 1) :
       \E m \in 2..(span + 1) :
          /\ modelImpl = impl
          /\ modelType = (IF impl = "ModelMinimizer" THEN type ELSE impl)
          /\ ctorArgs = [kmerSize |-> k,
                         minimizerSize |-> IF impl = "ModelMinimizer" THEN m ELSE 0]
    /\ kmerSize = 0 /\ kmerMask = 0 /\ revcompTable = << >>
    /\ miniSize = 0 /\ nbMinimizers = 0 /\ mmerMask = 0 /\ mmer_lut = << >>
    /\ error = "none"
    /\ data = EmptyData /\ pc = "new" /\ idx = 0 /\ idxComputed = 0 /\ indexBadChar = 0
    /\ result = NewKmer(modelImpl, modelType)
    /\ emitted = << >> /\ returned = "none"
    /\ NoNeighbors
    /\ NoSuperKmer
    /\ NoCodeSeed
    /\ NoThreads

\* a minimizer model over the canonical model and any word of K nucleotides
InitMinimizerValue ==
    /\ \E k \in 3..MaxMinK :
       \E m \in 2..(k - 1) : MinimizerInit("ModelCanonical", k, m)
    /\ IterateInit(EmptyData)
    /\ source \in 0..kmerMask
    /\ nmask = 0
    /\ NoSuperKmer
    /\ NoCodeSeed
    /\ Constructed
    /\ NoThreads

\* the arguments of one call of is_allowed: a length and any mmer of that
\* length
InitAllowed ==
    /\ \E m \in 2..MaxAllowedLen :
          /\ ctorArgs = [kmerSize |-> m + 1, minimizerSize |-> m]
          /\ source \in 0..(Pow4(m) - 1)
    /\ modelImpl = "ModelMinimizer" /\ modelType = "ModelCanonical"
    /\ kmerSize = 0 /\ kmerMask = 0 /\ revcompTable = << >>
    /\ miniSize = 0 /\ nbMinimizers = 0 /\ mmerMask = 0 /\ mmer_lut = << >>
    /\ error = "none"
    /\ data = EmptyData /\ pc = "call" /\ idx = 0 /\ idxComputed = 0 /\ indexBadChar = 0
    /\ result = NewKmer(modelImpl, modelType)
    /\ emitted = << >> /\ returned = "none"
    /\ nmask = 0
    /\ NoSuperKmer
    /\ NoCodeSeed
    /\ NoThreads

\* one model, shared; the first thread is given a short buffer of 'A', 'G'
\* and 'N', the second one of the two test sequences
InitThreads ==
    /\ \/ \E impl \in {"ModelDirect", "ModelCanonical"} :
          \E k \in 1..MaxThreadK : ModelInit(impl, k)
       \/ \E m \in 2..MaxThreadK : MinimizerInit("ModelCanonical", MaxThreadK + 1, m)
    /\ \E d \in AsciiData({65, 71, 78}, MaxThreadLen) : IterateInit(d)
    /\ \E d \in TestData :
          parked = ThreadLocals(d, "start", 0, 0, 0, NewKmer(modelImpl, modelType),
                                << >>, "none")
    /\ tid = 0
    /\ source = 1 % (kmerMask + 1)
    /\ nmask = 165
    /\ NoSuperKmer
    /\ NoCodeSeed
    /\ Constructed

SpecDirect    == InitDirect /\ [][NextIterate]_vars
SpecCanonical == InitCanonical /\ [][NextIterate]_vars
SpecMinimizer == InitMinimizer /\ [][NextIterate]_vars
SpecNeighbors == InitNeighbors /\ [][NextNeighbors]_vars
SpecSuperKmer == InitSuperKmer /\ [][NextSuperKmer]_vars
SpecBuild     == InitBuild /\ [][NextBuild]_vars
SpecCodeSeed  == InitCodeSeed /\ [][NextCodeSeed]_vars
SpecConstruct == InitConstruct /\ [][NextConstruct]_vars
SpecThreads   == InitThreads /\ [][NextThreads]_vars
SpecCodec     == InitCodec /\ [][NextSuperKmer]_vars
SpecMinimizerValue == InitMinimizerValue /\ [][NextMinimizerValue]_vars
SpecSlide     == InitSlide /\ [][NextIterate]_vars
SpecAllowed   == InitAllowed /\ [][NextAllowed]_vars

(***************************************************************************)
(* Reference definitions used by the properties: a kmer recomputed from    *)
(* the buffer, and the reverse complement digit by digit.                  *)
(***************************************************************************)
\* nucleotide code and invalid flag of position i of the buffer (0-based)
CodeAt(i)    == Convert(data.encoding, data.buffer, i)[1]
InvalidAt(i) == Convert(data.encoding, data.buffer, i)[2] # 0

\* base-4 polynomial of the k nucleotides starting at position start,
\* most significant digit first
RECURSIVE Polynomial(_, _)
Polynomial(start, k) ==
    IF k = 0 THEN 0 ELSE CodeAt(start) * Pow4(k - 1) + Polynomial(start + 1, k - 1)

\* y is the reverse complement of the k-digit word x: the digits in reverse
\* order, each one XOR 2
IsRC(y, x, k) ==
    /\ y < Pow4(k)
    /\ \A i \in 0..(k - 1) : Digit(y, i) = (Digit(x, k - 1 - i) + 2) % 4

KmersOf(seq) == [j \in 1..Len(seq) |-> seq[j].kmer]

IsTest1 == data.encoding = "ASCII"
           /\ data.buffer = << 67, 65, 84, 84, 71, 65, 84, 65, 71, 84, 71, 71 >>
IsTest2 == data.encoding = "ASCII"
           /\ data.buffer = << 65, 67, 71, 78, 65, 67, 71, 84 >>

(***************************************************************************)
(* C1: direct model, the i-th kmer that iterate emits is the base-4        *)
(* polynomial of the K nucleotides starting at position i of the buffer,   *)
(* for every i in [0, len-K] once iterate has returned.                    *)
(***************************************************************************)
C1_DirectForward ==
    /\ \A j \in 1..Len(emitted) :
          KmerDirect_value(emitted[j].kmer) = Polynomial(j - 1, kmerSize)
    /\ (pc = "done" /\ returned = TRUE) => Len(emitted) = data.size - kmerSize + 1

\* the unit test: K=3, "CATTGATAGTGG" has been iterated completely
C1_Witness ==
    /\ IsTest1 /\ kmerSize = 3 /\ pc = "done"
    /\ [j \in 1..Len(emitted) |-> emitted[j].kmer.value]
         = << 18, 10, 43, 44, 50, 8, 35, 14, 59, 47 >>

(***************************************************************************)
(* C2: the kmer emitted at index p is valid if and only if none of the K   *)
(* symbols p..p+K-1 of the buffer is reported invalid by the decoder.      *)
(***************************************************************************)
C2_ValidityWindow ==
    \A j \in 1..Len(emitted) :
        emitted[j].kmer.isValid
            <=> (\A q \in emitted[j].idx..(emitted[j].idx + kmerSize - 1) : ~InvalidAt(q))

\* the scenario K=4, "ACGNACGT": four invalid kmers, then a valid one of value 30
C2_Witness ==
    /\ IsTest2 /\ kmerSize = 4 /\ pc = "done"
    /\ [j \in 1..Len(emitted) |-> emitted[j].kmer.isValid]
         = << FALSE, FALSE, FALSE, FALSE, TRUE >>
    /\ emitted[5].kmer.value = 30

(***************************************************************************)
(* C3: canonical model, value() of every emitted kmer is the smaller of    *)
(* its forward and reverse complement words.                               *)
(***************************************************************************)
C3_CanonicalValueIsMin ==
    \A j \in 1..Len(emitted) :
        LET k == emitted[j].kmer
        IN  /\ KmerCanonical_value(k) <= KmerCanonical_forward(k)
            /\ KmerCanonical_value(k) <= KmerCanonical_revcomp(k)
            /\ KmerCanonical_value(k) \in {KmerCanonical_forward(k), KmerCanonical_revcomp(k)}

\* the unit test: K=3, "CATTGATAGTGG", canonical values
C3_Witness ==
    /\ IsTest1 /\ kmerSize = 3 /\ pc = "done"
    /\ [j \in 1..Len(emitted) |-> KmerCanonical_value(emitted[j].kmer)]
         = << 11, 2, 16, 36, 9, 8, 24, 6, 17, 20 >>

(***************************************************************************)
(* C4 as stated: choice is 0 if and only if forward <= revcomp, so a kmer  *)
(* that is its own reverse complement has choice 0.                        *)
(***************************************************************************)
C4_Original ==
    \A j \in 1..Len(emitted) :
        LET k == emitted[j].kmer
        IN  (k.choice = 0) <=> (KmerCanonical_forward(k) <= KmerCanonical_revcomp(k))

(***************************************************************************)
(* C4 amended: choice is 0 (which() is true) if and only if forward is     *)
(* strictly less than revcomp; a kmer that is its own reverse complement   *)
(* has choice 1.                                                           *)
(***************************************************************************)
C4_StrictChoice ==
    \A j \in 1..Len(emitted) :
        LET k == emitted[j].kmer
        IN  /\ k.choice \in {0, 1}
            /\ KmerCanonical_which(k) <=> (KmerCanonical_forward(k) < KmerCanonical_revcomp(k))
            /\ (KmerCanonical_forward(k) = KmerCanonical_revcomp(k)) => k.choice = 1

\* a palindromic kmer has been emitted after a next() step
C4_Witness ==
    /\ Len(emitted) >= 2
    /\ LET k == emitted[Len(emitted)].kmer
       IN  KmerCanonical_forward(k) = KmerCanonical_revcomp(k) /\ k.choice = 1

(***************************************************************************)
(* C5: canonical model, after first() and after every next() the revcomp   *)
(* word is the reverse complement of the forward word (digits reversed,    *)
(* each XOR 2) and both words are at most the mask 4^K - 1.                *)
(***************************************************************************)
C5_RevcompLockstep ==
    \A j \in 1..Len(emitted) :
        LET k == emitted[j].kmer
        IN  /\ IsRC(KmerCanonical_revcomp(k), KmerCanonical_forward(k), kmerSize)
            /\ KmerCanonical_forward(k) <= Pow4(kmerSize) - 1
            /\ KmerCanonical_revcomp(k) <= Pow4(kmerSize) - 1

\* the unit test: K=3, "CATTGATAGTGG", reverse complement words
C5_Witness ==
    /\ IsTest1 /\ kmerSize = 3 /\ pc = "done"
    /\ [j \in 1..Len(emitted) |-> KmerCanonical_revcomp(emitted[j].kmer)]
         = << 11, 2, 16, 36, 9, 34, 24, 6, 17, 20 >>

(***************************************************************************)
(* Reference definitions for the minimizer properties.                     *)
(***************************************************************************)
\* the lookup table entry of the mmer that lies i digits above the right end
\* of the forward word fwd
LutAt(fwd, i) == mmer_lut[(fwd \div Pow4(i)) % (mmerMask + 1)]

\* the entries of all the mmers of the window
WindowLut(fwd) == { LutAt(fwd, i) : i \in 0..(nbMinimizers - 1) }

IsCanonicalMinimizer == modelImpl = "ModelMinimizer" /\ modelType = "ModelCanonical"

(***************************************************************************)
(* C6: minimizer model over the canonical model, after first() and after   *)
(* every next() the minimizer value is the minimum of the lookup table     *)
(* entries of the nbMinimizers mmers of the window (the sentinel mmerMask  *)
(* when every mmer of the window is banned).                               *)
(***************************************************************************)
C6_MinimizerIsWindowMin ==
    IsCanonicalMinimizer =>
        \A j \in 1..Len(emitted) :
            LET k == emitted[j].kmer
                v == KmerCanonical_value(k.minimizer)
            IN  /\ v \in WindowLut(KmerCanonical_forward(k))
                /\ \A w \in WindowLut(KmerCanonical_forward(k)) : v <= w

\* the incumbent aged out of the window and the recomputation elected a mmer
\* that is not the newest one
C6_Witness ==
    /\ IsCanonicalMinimizer
    /\ Len(emitted) >= 3
    /\ LET k == emitted[Len(emitted)].kmer
           p == emitted[Len(emitted) - 1].kmer
       IN  /\ p.position = 0
           /\ k.changed
           /\ k.position \in 0..(nbMinimizers - 2)
           /\ KmerCanonical_value(k.minimizer) # mmerMask
           /\ KmerCanonical_value(k.minimizer) > KmerCanonical_value(p.minimizer)

IsNextStep == pc = "loop" /\ idx' = idx + 1

MinimizerValueOf(k) == KmerValue(modelType, k.minimizer)

C8_ChangedFlagStep ==
    IsNextStep =>
        LET old     == MinimizerValueOf(result)
            new     == MinimizerValueOf(result')
            aged    == result.position - 1 < 0
            newMmer == KmerValue(modelType, extract(modelType, result'))
        IN  /\ result'.changed <=> (new # old \/ aged)
            /\ (result.position = 0) => result'.changed
            /\ (~(newMmer < old) /\ ~aged) => (~result'.changed /\ new = old)

C8_ChangedFlag == [][C8_ChangedFlagStep]_vars

\* a step taken with the incumbent at position 0: the recomputation elects
\* a mmer of the same value and changed is true nevertheless
C8_Witness ==
    /\ modelImpl = "ModelMinimizer"
    /\ Len(emitted) >= 2
    /\ LET k == emitted[Len(emitted)].kmer
           p == emitted[Len(emitted) - 1].kmer
       IN  /\ p.position = 0
           /\ k.changed
           /\ MinimizerValueOf(k) = MinimizerValueOf(p)
           /\ MinimizerValueOf(k) # mmerMask

(***************************************************************************)
(* Reference definition: the reverse complement of the k-digit word x,     *)
(* built up from its least significant digit.                              *)
(***************************************************************************)
RCRef(x, k) ==
    LET f[i \in 0..k] ==
            IF i = 0 THEN 0
            ELSE f[i - 1] + ((Digit(x, k - i) + 2) % 4) * Pow4(i - 1)
    IN  f[k]

CanonicalRef(x, k) == IF RCRef(x, k) < x THEN RCRef(x, k) ELSE x

(***************************************************************************)
(* C10: every value that iterateOutgoingNeighbors emits for nt is          *)
(* min(n, RC(n)) with n = ((s << 2) | nt) & mask, every value that         *)
(* iterateIncomingNeighbors emits for nt is min(n, RC(n)) with             *)
(* n = ((RC(s) << 2) | (nt XOR 2)) & mask, and every emitted value is at   *)
(* most mask and equal to its own canonical form.                          *)
(***************************************************************************)
C10_NeighborClosure ==
    \A j \in 1..Len(emitted) :
        LET e == emitted[j]
            n == IF e.dir = "out"
                 THEN (source * 4 + e.nt) % Pow4(kmerSize)
                 ELSE (RCRef(source, kmerSize) * 4 + ((e.nt + 2) % 4)) % Pow4(kmerSize)
        IN  /\ e.value = CanonicalRef(n, kmerSize)
            /\ e.value <= Pow4(kmerSize) - 1
            /\ e.value = CanonicalRef(e.value, kmerSize)

\* the word n of the loop turn that made the invocation e
C10_Word(e) ==
    IF e.dir = "out"
    THEN (source * 4 + e.nt) % Pow4(kmerSize)
    ELSE (RCRef(source, kmerSize) * 4 + ((e.nt + 2) % 4)) % Pow4(kmerSize)

\* all 8 neighbors of a source have been emitted; in both directions some
\* are the word n itself and some its reverse complement
C10_Witness ==
    /\ pc = "done" /\ Len(emitted) = 8 /\ kmerSize = 3
    /\ \A d \in {"out", "in"} :
          /\ \E j \in 1..8 : emitted[j].dir = d /\ emitted[j].value = C10_Word(emitted[j])
          /\ \E j \in 1..8 : emitted[j].dir = d /\ emitted[j].value < C10_Word(emitted[j])

(***************************************************************************)
(* C9: for a run of L kmers with 1 <= L <= 255 and 2(L-1)+8 <= totalBits,  *)
(* decoding the two words that encoding wrote yields L kmers whose forward *)
(* and revcomp words equal those of the kmers of the run, one by one.      *)
(***************************************************************************)
C9_RoundTrip ==
    LET L == SuperKmer_size
    IN  (pc = "loaded" /\ L >= 1 /\ L <= 255 /\ 2 * (L - 1) + 8 <= 2 * TypeDigits) =>
            /\ Len(loadKmers) = L
            /\ \A i \in 0..(L - 1) :
                  /\ KmerCanonical_forward(loadKmers[i + 1])
                        = KmerCanonical_forward(SuperKmer_at(i))
                  /\ KmerCanonical_revcomp(loadKmers[i + 1])
                        = KmerCanonical_revcomp(SuperKmer_at(i))

(***************************************************************************)
(* C11: iterateNeighbors (s, mask8) invokes the callback once for each set *)
(* bit of mask8 and no more: the j-th invocation is made for the j-th set  *)
(* bit b of mask8 in ascending order, with the outgoing neighbor of        *)
(* nucleotide b for b < 4 and the incoming neighbor of nucleotide b-4      *)
(* for b >= 4, so the outgoing ones come first, each group in ascending    *)
(* nt, and a cleared bit removes that invocation alone.                    *)
(***************************************************************************)
\* the set bits of the 8 bit mask, in ascending order
C11_SetBits == SelectSeq(<< 0, 1, 2, 3, 4, 5, 6, 7 >>, LAMBDA b : Bit(nmask, b) = 1)

\* the value of the neighbor selected by bit b
C11_Neighbor(b) ==
    IF b < 4
    THEN CanonicalRef((source * 4 + b) % Pow4(kmerSize), kmerSize)
    ELSE CanonicalRef((RCRef(source, kmerSize) * 4 + ((b - 4 + 2) % 4)) % Pow4(kmerSize),
                      kmerSize)

C11_NeighborOrderStep ==
    IterateNeighbors =>
        /\ Len(emitted') = Cardinality({ b \in 0..7 : Bit(nmask, b) = 1 })
        /\ Len(emitted') = Len(C11_SetBits)
        /\ \A j \in 1..Len(emitted') :
              LET b == C11_SetBits[j]
              IN  /\ emitted'[j].dir = (IF b < 4 THEN "out" ELSE "in")
                  /\ emitted'[j].nt = b % 4
                  /\ emitted'[j].value = C11_Neighbor(b)

C11_NeighborOrder == [][C11_NeighborOrderStep]_vars

\* mask 0xA5 selects the outgoing nucleotides 0 and 2 and the incoming
\* nucleotides 1 and 3: four invocations, in that order
C11_Witness ==
    /\ pc = "done" /\ nmask = 165 /\ kmerSize = 2 /\ source = 6
    /\ Len(emitted) = 4
    /\ << emitted[1].dir, emitted[2].dir, emitted[3].dir, emitted[4].dir >>
          = << "out", "out", "in", "in" >>
    /\ << emitted[1].nt, emitted[2].nt, emitted[3].nt, emitted[4].nt >> = << 0, 2, 1, 3 >>

(***************************************************************************)
(* C12: for a buffer of len >= K nucleotides, iterate makes len-K+1        *)
(* invocations and then returns true; at every moment the j-th invocation  *)
(* so far (j = 0, 1, ...) carries the index j and the kmer that starts at  *)
(* position j of the input.                                                *)
(***************************************************************************)
C12_IterationOrder ==
    /\ Len(emitted) <= Max0(data.size - kmerSize + 1)
    /\ \A j \in 1..Len(emitted) :
          /\ emitted[j].idx = j - 1
          /\ emitted[j].kmer.value = Polynomial(j - 1, kmerSize)
    /\ (pc = "done" /\ data.size >= kmerSize) =>
          /\ returned = TRUE
          /\ Len(emitted) = data.size - kmerSize + 1
    /\ pc = "done" => (returned = TRUE <=> data.size >= kmerSize)
    /\ pc # "done" => returned = "none"

\* the iteration of the test sequence has returned after its 10 kmers
C12_Witness ==
    /\ IsTest1 /\ kmerSize = 3 /\ pc = "done" /\ returned = TRUE
    /\ Len(emitted) = 10
    /\ emitted[10].idx = 9 /\ emitted[10].kmer.value = 47

(***************************************************************************)
(* C13: iterate and build return false exactly when the data holds fewer   *)
(* than K nucleotides; then iterate has made no invocation and build has   *)
(* left the vector as it was. When build returns true the vector has       *)
(* len-K+1 entries, entry j being the j-th kmer iterate emitted on the     *)
(* data.                                                                   *)
(***************************************************************************)
C13_InsufficientInput ==
    /\ pc = "done" =>
          /\ returned = FALSE <=> data.size < kmerSize
          /\ returned = FALSE => emitted = << >> /\ kmers = StaleKmers
    /\ pc = "nobuild" =>
          /\ returned = FALSE /\ data.size < kmerSize
          /\ emitted = << >>
          /\ kmers = StaleKmers
    /\ pc = "built" =>
          /\ returned = TRUE /\ data.size >= kmerSize
          /\ Len(kmers) = data.size - kmerSize + 1
          /\ Len(emitted) = Len(kmers)
          /\ \A j \in 1..Len(kmers) : kmers[j] = emitted[j].kmer

\* build has returned true with a vector shorter than the one it was given
C13_WitnessBuilt ==
    /\ pc = "built" /\ Len(kmers) = 1 /\ kmerSize = 3 /\ data.size = 3
    /\ kmers[1] # StaleKmers[1]

\* build has returned false on a buffer one nucleotide too short
C13_Witness ==
    pc = "nobuild" /\ returned = FALSE /\ data.size = kmerSize - 1 /\ kmers = StaleKmers

(***************************************************************************)
(* C14: codeSeed (s) followed by j calls of codeSeedRight whose nucl       *)
(* arguments decode to the nucleotides s[K], ..., s[K+j-1] gives the words *)
(* of the kmer that iterate (s) emits with index j: the value for the      *)
(* direct model; forward, revcomp and canonical value for the canonical    *)
(* model. When the K+j nucleotides read are all valid the two kmers are    *)
(* equal, validity flag included.                                          *)
(***************************************************************************)
\* the nucl arguments so far are the nucleotides that follow the seed
C14_NuclsFollowSeed ==
    \A i \in 1..Len(nucls) :
        Convert(data.encoding, << nucls[i] >>, 0)[1] = CodeAt(kmerSize + i - 1)

C14_SameWords(a, b) ==
    IF modelImpl = "ModelDirect"
    THEN KmerDirect_value(a) = KmerDirect_value(b)
    ELSE /\ KmerCanonical_forward(a) = KmerCanonical_forward(b)
         /\ KmerCanonical_revcomp(a) = KmerCanonical_revcomp(b)
         /\ KmerCanonical_value(a) = KmerCanonical_value(b)

C14_SingleShotAgrees ==
    (pc = "seeded" /\ C14_NuclsFollowSeed) =>
        LET j == Len(nucls)
            e == emitted[j + 1].kmer
        IN  /\ kmerSize + j <= data.size
            /\ C14_SameWords(seed, e)
            /\ (\A i \in 0..(kmerSize + j - 1) : ~InvalidAt(i)) => seed = e

\* the steps of the unit test: CAT, then T, G, A give 18, 10, 43, 44 and
\* in the other strand 11, 2, 16, 36
C14_Witness ==
    /\ pc = "seeded" /\ IsTest1 /\ kmerSize = 3 /\ modelImpl = "ModelCanonical"
    /\ nucls = << 84, 71, 65 >>
    /\ seed.table = << 44, 36 >>
    /\ emitted[4].kmer = seed

(***************************************************************************)
(* C15: in the lookup table of a constructed minimizer model, every mmer   *)
(* value x in [0, 4^m) has the entry of its reverse complement:            *)
(* mmerLut[x] = mmerLut[RC(x, m)].                                         *)
(***************************************************************************)
C15_LutCanonicalFolding ==
    (pc = "start" /\ modelImpl = "ModelMinimizer") =>
        /\ DOMAIN mmer_lut = 0..(Pow4(miniSize) - 1)
        /\ \A x \in DOMAIN mmer_lut : mmer_lut[x] = mmer_lut[RCRef(x, miniSize)]

\* a table for m = 3 in which an mmer larger than its reverse complement is
\* folded onto it, and an allowed mmer has a reverse complement that
\* is_allowed would refuse: AAC (1) and GTT (58) both map to 1
C15_Witness ==
    /\ pc = "start" /\ modelImpl = "ModelMinimizer" /\ miniSize = 3
    /\ mmer_lut[58] = 1 /\ mmer_lut[1] = 1 /\ RCRef(58, 3) = 1
    /\ \E x \in DOMAIN mmer_lut : mmer_lut[x] = mmerMask /\ x # mmerMask

(***************************************************************************)
(* C16 as stated: construction fails with the precision error if and only  *)
(* if the requested K is >= span, and succeeds for K < span.               *)
(***************************************************************************)
C16_Original ==
    pc # "new" =>
        /\ error = "PrecisionTooLow" <=> ctorArgs.kmerSize >= span
        /\ ctorArgs.kmerSize < span => pc = "start"

(***************************************************************************)
(* C16: constructing a model fails with the precision error if and only if *)
(* K >= span or, for a minimizer model, m >= span (the mmer model is       *)
(* itself a model of size m). A direct or canonical model with             *)
(* 1 <= K < span, and a minimizer model with 2 <= m < K < span, is         *)
(* constructed with getKmerSize() = K, getKmerMax() = 4^K - 1 and          *)
(* revcompTable[n] = (n XOR 2) << 2(K-1) for n in 0..3.                    *)
(***************************************************************************)
C16_PrecisionCheck ==
    pc # "new" =>
        LET K == ctorArgs.kmerSize
            m == ctorArgs.minimizerSize
        IN  /\ error = "PrecisionTooLow"
                  <=> (K >= span \/ (modelImpl = "ModelMinimizer" /\ m >= span))
            /\ (K < span /\ (modelImpl = "ModelMinimizer" => m < K)) =>
                  /\ pc = "start" /\ error = "none"
                  /\ kmerSize = K
                  /\ kmerMask = Pow4(K) - 1
                  /\ DOMAIN revcompTable = 0..3
                  /\ \A n \in 0..3 : revcompTable[n] = ((n + 2) % 4) * Pow4(K - 1)

\* the largest kmer size has been accepted
C16_WitnessAccepted ==
    /\ pc = "start" /\ error = "none" /\ ctorArgs.kmerSize = span - 1
    /\ kmerMask = Pow4(span - 1) - 1 /\ revcompTable[0] = 2 * Pow4(span - 2)

\* a minimizer model refused for the size of its mmers, K being below span
C16_Witness ==
    /\ pc = "failed" /\ error = "PrecisionTooLow"
    /\ ctorArgs.kmerSize < span /\ ctorArgs.minimizerSize >= span

(***************************************************************************)
(* C17: for K and m both below span, constructing a minimizer model fails  *)
(* with the minimizer size error whenever K <= m, no lookup table having   *)
(* been allocated, and succeeds for K > m with nbMinimizers = K - m + 1,   *)
(* mmerMask = 4^m - 1 and shift = 2(nbMinimizers - 1).                     *)
(***************************************************************************)
C17_MinimizerSizeCheck ==
    (pc # "new" /\ modelImpl = "ModelMinimizer"
        /\ ctorArgs.kmerSize < span /\ ctorArgs.minimizerSize < span) =>
        LET K == ctorArgs.kmerSize
            m == ctorArgs.minimizerSize
        IN  /\ K <= m => /\ pc = "failed" /\ error = "BadMinimizerSize"
                         /\ mmer_lut = << >>
            /\ K > m  => /\ pc = "start" /\ error = "none"
                         /\ miniSize = m
                         /\ nbMinimizers = K - m + 1
                         /\ mmerMask = Pow4(m) - 1
                         /\ ModelMinimizer_shift = 2 * (K - m)
                         /\ DOMAIN mmer_lut = 0..(Pow4(m) - 1)

\* K = m is refused
C17_Witness ==
    /\ pc = "failed" /\ error = "BadMinimizerSize"
    /\ ctorArgs.kmerSize = ctorArgs.minimizerSize /\ mmer_lut = << >>

\* K = m + 1 is accepted, with two mmers a kmer
C17_WitnessAccepted ==
    /\ pc = "start" /\ modelImpl = "ModelMinimizer"
    /\ ctorArgs.kmerSize = ctorArgs.minimizerSize + 1 /\ nbMinimizers = 2 /\ ModelMinimizer_shift = 2

(***************************************************************************)
(* C18: save refuses a run of L > 255 kmers, or one with                   *)
(* 2(L-1)+8 > totalBits, with the SuperKmerTooLong error and inserts       *)
(* nothing into the bag; a payload word it does insert carries L in its    *)
(* top 8 bits, untouched by the nucleotide chain.                          *)
(***************************************************************************)
\* the top 8 bits of a payload word
C18_Header(w) == WordVal(WordShr(w, TypeDigits - 4)) % 256

C18_EncoderRejects ==
    pc \in {"saved", "loaded"} =>
        LET L == SuperKmer_size
        IN  IF L > 255 \/ 2 * (L - 1) + 8 > 2 * TypeDigits
            THEN bag = << >> /\ error = "SuperKmerTooLong"
            ELSE Len(bag) = 2 /\ C18_Header(bag[1]) = L

RECURSIVE AloneLoop(_, _, _, _)
AloneLoop(i, kmer, badChar, out) ==
    IF i >= data.size THEN out
    ELSE LET c   == Convert(data.encoding, data.buffer, i)
             ibc == NextBadChar(c, badChar)
         IN  Only({ AloneLoop(i + 1, r, ibc, Append(out, [kmer |-> r, idx |-> Len(out)])) :
                     r \in { next(c[1], kmer, ibc < 0) } })

Alone ==
    IF data.size - kmerSize + 1 <= 0 THEN << >>
    ELSE Only({ AloneLoop(kmerSize, r[1], r[2], << [kmer |-> r[1], idx |-> 0] >>) :
                 r \in { first(NewKmer(modelImpl, modelType)) } })

IsPrefix(a, b) == Len(a) <= Len(b) /\ \A j \in 1..Len(a) : a[j] = b[j]

(***************************************************************************)
(* C19: whatever the interleaving of two threads that iterate or           *)
(* enumerate neighbors on one model, the model keeps the state its         *)
(* constructor gave it (K, mask, revcompTable, nbMinimizers, mmerMask,     *)
(* lookup table), and the invocations of the running thread are a prefix   *)
(* of, and once it has returned equal to, those it makes when it runs      *)
(* alone (for a neighbor enumeration: those of its source and mask). Every *)
(* thread is the running one after the next switch, so the statement       *)
(* covers both.                                                            *)
(***************************************************************************)
C19_ModelImmutable ==
    /\ kmerSize = ctorArgs.kmerSize
    /\ kmerMask = KmerMaskOf(kmerSize)
    /\ revcompTable = RevcompTableOf(kmerSize)
    /\ miniSize = ctorArgs.minimizerSize
    /\ modelImpl = "ModelMinimizer" =>
          /\ nbMinimizers = kmerSize - miniSize + 1
          /\ mmerMask = Pow4(miniSize) - 1
          /\ mmer_lut = MmerLutOf(miniSize)

C19_ConcurrentReaders ==
    /\ C19_ModelImmutable
    /\ pc = "loop" => IsPrefix(emitted, Alone) /\ Len(emitted) >= 1
    /\ pc = "done" =>
          \/ emitted = Alone
          \/ emitted \in { OutgoingCalls(source, nmask), IncomingCalls(source, nmask),
                           OutgoingCalls(source, nmask % 16)
                              \o IncomingCalls(source, (nmask \div 16) % 16) }
    /\ pc = "start" => emitted = << >>

\* the second thread has returned after its 10 kmers although the first
\* thread, which has returned too, ran all its steps in the middle of them
C19_Witness ==
    /\ tid = 1 /\ pc = "done" /\ IsTest1 /\ kmerSize = 3
    /\ modelImpl = "ModelMinimizer"
    /\ Len(emitted) = 10
    /\ parked.pc = "done" /\ Len(parked.emitted) = 1
    /\ parked.emitted[1].kmer.isValid = FALSE

(***************************************************************************)
(* Reference definition: the mmer x of m digits has no two adjacent A      *)
(* digits (value 0) at the digit positions (p, p+1) with 0 <= p <= m-3,    *)
(* digit 0 being the least significant one.                                *)
(***************************************************************************)
NoAdjacentA(x, m) ==
    \A p \in 0..(m - 3) : ~(Digit(x, p) = 0 /\ Digit(x, p + 1) = 0)

(***************************************************************************)
(* C21: in the lookup table of a constructed minimizer model, for every i  *)
(* in [0, 4^m), with canon = min(i, RC(i, m)): mmerLut[i] = canon if canon *)
(* is allowed and mmerLut[i] = mmerMask otherwise; an allowed canonical    *)
(* mmer is never the sentinel mmerMask, and no entry exceeds mmerMask, so  *)
(* the entry of a banned mmer is never strictly less than another entry.   *)
(***************************************************************************)
C21_LutContent ==
    (pc = "start" /\ modelImpl = "ModelMinimizer") =>
        /\ mmerMask = Pow4(miniSize) - 1
        /\ DOMAIN mmer_lut = 0..(Pow4(miniSize) - 1)
        /\ \A i \in DOMAIN mmer_lut :
              LET canon == CanonicalRef(i, miniSize)
              IN  /\ mmer_lut[i] = IF NoAdjacentA(canon, miniSize) THEN canon ELSE mmerMask
                  /\ NoAdjacentA(canon, miniSize) => canon # mmerMask
                  /\ mmer_lut[i] <= mmerMask

\* a table for m = 3: GAA (48) has two adjacent A's and is folded onto its
\* allowed reverse complement TTC (41); CAA (16) is canonical and banned
C21_Witness ==
    /\ pc = "start" /\ modelImpl = "ModelMinimizer" /\ miniSize = 3
    /\ ~NoAdjacentA(48, 3) /\ mmer_lut[48] = 41 /\ mmer_lut[41] = 41
    /\ ~NoAdjacentA(16, 3) /\ mmer_lut[16] = 63 /\ mmer_lut[43] = 63

(***************************************************************************)
(* C22: for every mmer length m >= 2 and every mmer x of that length,      *)
(* is_allowed(x, m) is true if and only if x has no two adjacent A digits  *)
(* at the digit positions (p, p+1) with 0 <= p <= m-3; two A's in the top  *)
(* two positions (m-2, m-1) alone do not ban the mmer.                     *)
(***************************************************************************)
C22_AllowedPredicate ==
    pc = "returned" =>
        LET m == ctorArgs.minimizerSize
        IN  /\ returned = NoAdjacentA(source, m)
            /\ (/\ Digit(source, m - 1) = 0 /\ Digit(source, m - 2) = 0
                /\ \A p \in 0..(m - 3) : Digit(source, p) # 0)
                  => returned = TRUE

\* AACC (5, m = 4) starts with two A's and is allowed
C22_Witness ==
    /\ pc = "returned" /\ ctorArgs.minimizerSize = 4 /\ source = 5
    /\ Digit(source, 3) = 0 /\ Digit(source, 2) = 0
    /\ returned = TRUE

\* CAAC (65, m = 4) has two A's in the middle and is banned
C22_WitnessBanned ==
    /\ pc = "returned" /\ ctorArgs.minimizerSize = 4 /\ source = 65
    /\ returned = FALSE

(***************************************************************************)
(* C23: in a minimizer model over the direct model, every mmer taken from  *)
(* a kmer (the one newly entered at a slide, and each one examined by      *)
(* computeNewMinimizer) is the lookup table entry mmerLut[forward &        *)
(* mmerMask], so the minimizer of every emitted direct kmer is the minimum *)
(* of the lookup table entries of the mmers of its window.                 *)
(***************************************************************************)
C23_DirectUsesLut ==
    (modelImpl = "ModelMinimizer" /\ modelType = "ModelDirect") =>
        \A j \in 1..Len(emitted) :
              LET k == emitted[j].kmer
                  v == KmerDirect_value(k.minimizer)
              IN  /\ KmerDirect_value(extract(modelType, k))
                        = mmer_lut[KmerDirect_value(k) % (mmerMask + 1)]
                  /\ v \in WindowLut(KmerDirect_value(k))
                  /\ \A w \in WindowLut(KmerDirect_value(k)) : v <= w

(***************************************************************************)
(* Reference definitions: the minimizer and position that                  *)
(* computeNewMinimizer gives the kmer k when run on it from scratch, and   *)
(* the mmer that extract takes from k at position q, position              *)
(* nbMinimizers-1 being the newest mmer, in the lowest bits.               *)
(***************************************************************************)
FromScratch(k) == computeNewMinimizer(modelType, k)

MmerAt(k, q) ==
    LET d == Pow4(nbMinimizers - 1 - q)
    IN  KmerValue(modelType,
            extract(modelType,
                IF modelType = "ModelDirect"
                THEN [k EXCEPT !.value = k.value \div d]
                ELSE [k EXCEPT !.table = << k.table[1] \div d, k.table[2] >>]))

(***************************************************************************)
(* C24 as stated: for every kmer emitted by the iteration of a minimizer   *)
(* model, the pair (minimizer value, position) equals the pair that        *)
(* computeNewMinimizer produces from scratch on that kmer, ties included.  *)
(***************************************************************************)
C24_Original ==
    (modelImpl = "ModelMinimizer" /\ Len(emitted) >= 1) =>
            LET j == Len(emitted)
                k == emitted[j].kmer
                s == FromScratch(k)
            IN  /\ MinimizerValueOf(k) = MinimizerValueOf(s)
                /\ k.position = s.position

(***************************************************************************)
(* C24 amended: for every kmer emitted by the iteration of a minimizer     *)
(* model (each one is the last emitted in the state that follows its       *)
(* emission), the minimizer value equals the one computeNewMinimizer       *)
(* produces from scratch on that kmer. The position equals the recomputed  *)
(* one                                                                     *)
(* unless several mmers of the window tie for the minimum: next() keeps    *)
(* an incumbent that the newly entered mmer only equals, so the position   *)
(* held may be that of an older occurrence, left of the recomputed one     *)
(* (which is the rightmost occurrence); both positions hold the minimizer. *)
(***************************************************************************)
C24_IncrementalValue ==
    (modelImpl = "ModelMinimizer" /\ Len(emitted) >= 1) =>
            LET j == Len(emitted)
                k == emitted[j].kmer
                s == FromScratch(k)
            IN  /\ MinimizerValueOf(k) = MinimizerValueOf(s)
                /\ k.position <= s.position
                /\ (j = 1) => k.position = s.position
                /\ (k.position # s.position) =>
                      /\ k.position >= 0
                      /\ MmerAt(k, k.position) = MinimizerValueOf(k)
                      /\ MmerAt(k, s.position) = MinimizerValueOf(k)
                /\ (k.position >= 0 /\
                    \A q \in 0..(nbMinimizers - 1) :
                        q # k.position => MmerAt(k, q) # MinimizerValueOf(k))
                      => k.position = s.position

\* a slide brought in an mmer equal to the incumbent: the incumbent was
\* kept, and the recomputation would record the newly entered one
C24_Witness ==
    /\ modelImpl = "ModelMinimizer"
    /\ Len(emitted) >= 2
    /\ LET k == emitted[Len(emitted)].kmer
           p == emitted[Len(emitted) - 1].kmer
       IN  /\ ~k.changed
           /\ k.position = p.position - 1
           /\ MmerAt(k, nbMinimizers - 1) = MinimizerValueOf(k)
           /\ FromScratch(k).position = nbMinimizers - 1
           /\ k.position < nbMinimizers - 1

WordDigit(w, d) == w[TypeDigits - d]

TopByte(w) == w[1] * 64 + w[2] * 16 + w[3] * 4 + w[4]

(***************************************************************************)
(* C26: for a run of L kmers with 1 <= L <= 255 and 2(L-1)+8 <= totalBits, *)
(* save writes exactly two words, in this order: the payload word, whose   *)
(* top 8 bits equal L, whose bits [0, 2(L-1)) hold the low 2 bits of       *)
(* forward_1 .. forward_(L-1) with forward_(L-1) in bits 0..1, all other   *)
(* bits being zero, then the seed word forward_0; load reads the length    *)
(* back as (payload >> (totalBits-8)) & 0xFF = L.                          *)
(***************************************************************************)
C26_EncodedLayout ==
    LET L == SuperKmer_size
    IN  (pc \in {"saved", "loaded"} /\ L >= 1 /\ L <= 255
            /\ 2 * (L - 1) + 8 <= 2 * TypeDigits) =>
            /\ Len(bag) = 2
            /\ TopByte(bag[1]) = L
            /\ \A d \in 0..(TypeDigits - 5) :
                  WordDigit(bag[1], d)
                     = IF d <= L - 2
                       THEN KmerCanonical_forward(SuperKmer_at(L - 1 - d)) % 4
                       ELSE 0
            /\ \A d \in 0..(TypeDigits - 1) :
                  WordDigit(bag[2], d)
                     = IF d < kmerSize
                       THEN Digit(KmerCanonical_forward(SuperKmer_at(0)), d)
                       ELSE 0
            /\ WordVal(WordShr(bag[1], TypeDigits - 4)) % 256 = L
            /\ Len(LoadedSlots(bag[1], bag[2])) = L

\* the longest run that fits, L = 29: the chain ends just below the length
C26_Witness ==
    /\ pc = "loaded" /\ SuperKmer_size = 29 /\ Len(bag) = 2
    /\ TopByte(bag[1]) = 29
    /\ WordDigit(bag[1], 27) = KmerCanonical_forward(SuperKmer_at(1)) % 4
    /\ WordDigit(bag[1], 27) # 0
    /\ Len(LoadedSlots(bag[1], bag[2])) = 29

(***************************************************************************)
(* C27: for a run of L canonical kmers with 1 <= L <= 255 and              *)
(* 2(L-1)+8 <= totalBits, load applied to the two words that save wrote    *)
(* stores L kmers in the slots 0..L-1 such that for every i the value() of *)
(* the decoded kmer equals the value() of the i-th kmer of the run and its *)
(* two strand words are reverse complements of each other; the slots of    *)
(* index >= L are left unchanged.                                          *)
(***************************************************************************)
C27_RoundTripValues ==
    LET L == SuperKmer_size
    IN  (pc = "loaded" /\ L >= 1 /\ L <= 255 /\ 2 * (L - 1) + 8 <= 2 * TypeDigits) =>
            /\ Len(loadKmers) = DecoderSlots
            /\ \A i \in 0..(L - 1) :
                  LET d == loadKmers[i + 1]
                  IN  /\ d # DecoderVector[i + 1]
                      /\ KmerCanonical_value(d) = KmerCanonical_value(SuperKmer_at(i))
                      /\ IsRC(d.table[2], d.table[1], kmerSize)
                      /\ IsRC(d.table[1], d.table[2], kmerSize)
            /\ \A j \in (L + 1)..DecoderSlots : loadKmers[j] = DecoderVector[j]

\* a run of three kmers has been decoded: the values are those of the run
\* although the strand words of a decoded kmer are not those of the kmer it
\* stands for, and the fourth slot is untouched
C27_Witness ==
    /\ pc = "loaded" /\ SuperKmer_size = 3
    /\ \A i \in 0..2 :
          KmerCanonical_value(loadKmers[i + 1]) = KmerCanonical_value(SuperKmer_at(i))
    /\ loadKmers[2].table # SuperKmer_at(1).table
    /\ loadKmers[4] = DecoderVector[4]

(***************************************************************************)
(* Reference definition: the predecessor of the K-digit word s by the      *)
(* nucleotide nt, p = (s >> 2) | (nt << 2(K-1)): nt prepended, the last    *)
(* nucleotide of s dropped.                                                *)
(***************************************************************************)
Predecessor(s, nt) == (s \div 4) + nt * Pow4(kmerSize - 1)

(***************************************************************************)
(* C28: for every K-digit source s and every nt in 0..3, the value that    *)
(* iterateIncomingNeighbors emits for nt is the canonical form             *)
(* min(p, RC(p, K)) of the predecessor p = (s >> 2) | (nt << 2(K-1)), and  *)
(* canonical(s) is among the 4 outgoing neighbors of p.                    *)
(***************************************************************************)
C28_IncomingPredecessors ==
    \A j \in 1..Len(emitted) :
        LET e == emitted[j]
            q == Predecessor(source, e.nt)
        IN  e.dir = "in" =>
                /\ e.value = CanonicalRef(q, kmerSize)
                /\ CanonicalRef(source, kmerSize)
                      \in { OutgoingCalls(q, 15)[x].value : x \in 1..4 }
                /\ \E x \in 0..3 : AndMask(q * 4 + x, kmerMask) = source

\* the 4 incoming neighbors of a source of 3 nucleotides: one emitted value
\* is the predecessor itself, another the reverse complement of its
\* predecessor
C28_Witness ==
    /\ pc = "done" /\ kmerSize = 3 /\ Len(emitted) = 4
    /\ \A j \in 1..4 : emitted[j].dir = "in"
    /\ \E j \in 1..4 : emitted[j].value = Predecessor(source, emitted[j].nt)
    /\ \E j \in 1..4 : emitted[j].value < Predecessor(source, emitted[j].nt)
    /\ CanonicalRef(source, kmerSize) # source

(***************************************************************************)
(* C29: for a minimizer model over the canonical model and every word k of *)
(* K nucleotides, getMinimizerValue(k) = getMinimizerValue(RC(k, K)): the  *)
(* minimizer value of a kmer does not depend on the strand it is read      *)
(* from.                                                                   *)
(***************************************************************************)
C29_StrandInvariance ==
    IsCanonicalMinimizer =>
        \A i \in 1..Len(emitted) : \A j \in 1..Len(emitted) :
            IsRC(emitted[j].k, emitted[i].k, kmerSize)
                => emitted[i].value = emitted[j].value

\* the two strands of a kmer have been asked for: one value, an allowed
\* mmer, which is no mmer of the first strand as it is written
C29_Witness ==
    /\ IsCanonicalMinimizer /\ Len(emitted) = 2
    /\ emitted[1].k = source /\ emitted[2].k = RCRef(source, kmerSize)
    /\ emitted[1].k # emitted[2].k
    /\ emitted[1].value = emitted[2].value
    /\ emitted[1].value # mmerMask
    /\ \A q \in 0..(nbMinimizers - 1) :
          (source \div Pow4(q)) % (mmerMask + 1) # emitted[1].value

(***************************************************************************)
(* C30: the kmer that codeSeedRight(prev, nt) returns is valid if and only *)
(* if the decoder reports nt as valid, whatever the valid flag of prev and *)
(* however recently an invalid symbol was consumed: codeSeedRight keeps no *)
(* countdown over the window of K symbols, unlike iterate.                 *)
(***************************************************************************)
C30_SingleShotValidity ==
    (pc = "seeded" /\ Len(nucls) >= 1) =>
        (seed.isValid <=> Convert(data.encoding, << nucls[Len(nucls)] >>, 0)[2] = 0)

\* "ACGNACGT", K = 3: the seed ACG, then N, then A; the kmer returned for A
\* is valid although its window GNA holds the N, and the kmer iterate emits
\* at that index is invalid
C30_Witness ==
    /\ pc = "seeded" /\ IsTest2 /\ kmerSize = 3
    /\ nucls = << 78, 65 >>
    /\ seed.isValid
    /\ ~emitted[3].kmer.isValid
    /\ InvalidAt(3)

====
